---- MODULE Spec2Model ----
(***************************************************************************)
(* A model of the achievement-badge tracker and orchestrator:              *)
(*   scripts/badge_tracker.py      BadgeTracker (catalogue, check methods, *)
(*                                  get_badge_progress)                     *)
(*   scripts/badge_orchestrator.py BadgeOrchestrator (get_earning_plan,    *)
(*                                  execute_immediate_badges, the two timed *)
(*                                  workflows, earn_all)                    *)
(*   scripts/quickdraw_automation.py QuickdrawAutomation                    *)
(*                                  (create_and_close_issue_quickly)        *)
(* Python dicts are modelled as sequences of <<key, value>> pairs or of     *)
(* records, in insertion order, because the code iterates them in that      *)
(* order.                                                                   *)
(***************************************************************************)
EXTENDS Integers, Sequences, FiniteSets, TLC

(***************************************************************************)
(* Bounds of the model.                                                    *)
(***************************************************************************)
\* readings 0..MaxReading are tried for every tier table, next to the
\* readings just below, at and just above each of its thresholds
MaxReading == 3

(***************************************************************************)
(* Python's None.  achieved_tier is a tier label or None; next_requirement *)
(* is a dict or None.                                                      *)
(***************************************************************************)
None == "None"
NoneReq == [none |-> TRUE]

(***************************************************************************)
(* BadgeTracker.badges: the catalogue, in definition order.                *)
(***************************************************************************)
badges ==
  << [name |-> "Heart On Your Sleeve",
      description |-> "Submit a pull request that gets merged",
      tiers |-> << <<"Default", 1>>, <<"Bronze", 2>>, <<"Silver", 4>>, <<"Gold", 8>> >>,
      check_method |-> "count_merged_prs"],
     [name |-> "Open Sourcerer",
      description |-> "User had PRs merged in multiple public repositories",
      tiers |-> << <<"Default", 1>>, <<"Bronze", 2>>, <<"Silver", 3>>, <<"Gold", 4>> >>,
      check_method |-> "count_repos_with_merged_prs"],
     [name |-> "Starstruck",
      description |-> "Created a repository that has many stars",
      tiers |-> << <<"Default", 16>>, <<"Bronze", 128>>, <<"Silver", 512>>, <<"Gold", 4096>> >>,
      check_method |-> "count_max_stars"],
     [name |-> "Quickdraw",
      description |-> "Closed an issue/pull request within 5 minutes of opening",
      tiers |-> << <<"Default", 1>> >>,
      check_method |-> "check_quickdraw"],
     [name |-> "Pair Extraordinaire",
      description |-> "Coauthored commits on merged pull request",
      tiers |-> << <<"Default", 1>>, <<"Bronze", 10>>, <<"Silver", 24>>, <<"Gold", 48>> >>,
      check_method |-> "count_coauthored_commits"],
     [name |-> "Pull Shark",
      description |-> "Opened a pull request that has been merged",
      tiers |-> << <<"Default", 2>>, <<"Bronze", 16>>, <<"Silver", 128>>, <<"Gold", 1024>> >>,
      check_method |-> "count_merged_prs"],
     [name |-> "Galaxy Brain",
      description |-> "Answered a discussion (got an accepted answer)",
      tiers |-> << <<"Default", 2>>, <<"Bronze", 8>>, <<"Silver", 16>>, <<"Gold", 32>> >>,
      check_method |-> "count_discussion_answers"],
     [name |-> "YOLO",
      description |-> "Merged a pull request without a review",
      tiers |-> << <<"Default", 1>> >>,
      check_method |-> "check_yolo_merges"],
     [name |-> "Public Sponsor",
      description |-> "Sponsored an open source contributor through GitHub Sponsors",
      tiers |-> << <<"Default", 1>> >>,
      check_method |-> "check_sponsorships"] >>

NBadges == Len(badges)
BadgeNames == {badges[n].name : n \in 1..NBadges}
BadgeIndex(name) == CHOOSE n \in 1..NBadges : badges[n].name = name
BadgeInfo(name) == badges[BadgeIndex(name)]

(***************************************************************************)
(* sorted(badge_info["tiers"].items(), key=lambda x: x[1]): a stable sort  *)
(* of the (tier, requirement) pairs by requirement.                        *)
(***************************************************************************)
RECURSIVE InsertByRequirement(_, _)
InsertByRequirement(item, s) ==
  IF s = <<>> THEN <<item>>
  ELSE IF item[2] < Head(s)[2] THEN <<item>> \o s
  ELSE <<Head(s)>> \o InsertByRequirement(item, Tail(s))

RECURSIVE sorted_tiers(_)
sorted_tiers(tiers) ==
  IF tiers = <<>> THEN <<>>
  ELSE InsertByRequirement(tiers[Len(tiers)], sorted_tiers(SubSeq(tiers, 1, Len(tiers) - 1)))

(***************************************************************************)
(* get_badge_progress, "Determine tier achieved": the loop keeps the last  *)
(* tier of the sorted list whose requirement the count reaches.            *)
(***************************************************************************)
RECURSIVE AchievedScan(_, _, _)
AchievedScan(s, current_count, acc) ==
  IF s = <<>> THEN acc
  ELSE AchievedScan(Tail(s), current_count,
                    IF current_count >= Head(s)[2] THEN Head(s)[1] ELSE acc)

\* a plausible slip: > for >= in the comparison
RECURSIVE AchievedScanStrict(_, _, _)
AchievedScanStrict(s, current_count, acc) ==
  IF s = <<>> THEN acc
  ELSE AchievedScanStrict(Tail(s), current_count,
                          IF current_count > Head(s)[2] THEN Head(s)[1] ELSE acc)

achieved_tier_strict(tiers, current_count) ==
  AchievedScanStrict(sorted_tiers(tiers), current_count, None)

\* a plausible slip: == for >= in the comparison
RECURSIVE AchievedScanExact(_, _, _)
AchievedScanExact(s, current_count, acc) ==
  IF s = <<>> THEN acc
  ELSE AchievedScanExact(Tail(s), current_count,
                         IF current_count = Head(s)[2] THEN Head(s)[1] ELSE acc)

achieved_tier_exact(tiers, current_count) ==
  AchievedScanExact(sorted_tiers(tiers), current_count, None)

achieved_tier(tiers, current_count) ==
  AchievedScan(sorted_tiers(tiers), current_count, None)

(***************************************************************************)
(* get_badge_progress, "Find next requirement": the first tier of the      *)
(* sorted list whose requirement exceeds the count, then break.            *)
(***************************************************************************)
RECURSIVE NextScan(_, _)
NextScan(s, current_count) ==
  IF s = <<>> THEN NoneReq
  ELSE IF current_count < Head(s)[2]
       THEN [tier |-> Head(s)[1], count |-> Head(s)[2],
             needed |-> Head(s)[2] - current_count]
       ELSE NextScan(Tail(s), current_count)

\* a plausible slip: the break is missing, so the last matching tier wins
RECURSIVE NextScanNoBreak(_, _, _)
NextScanNoBreak(s, current_count, acc) ==
  IF s = <<>> THEN acc
  ELSE NextScanNoBreak(Tail(s), current_count,
                       IF current_count < Head(s)[2]
                       THEN [tier |-> Head(s)[1], count |-> Head(s)[2],
                             needed |-> Head(s)[2] - current_count]
                       ELSE acc)

next_requirement_no_break(tiers, current_count) ==
  NextScanNoBreak(sorted_tiers(tiers), current_count, NoneReq)

\* a plausible slip: <= for < in the comparison
RECURSIVE NextScanLeq(_, _)
NextScanLeq(s, current_count) ==
  IF s = <<>> THEN NoneReq
  ELSE IF current_count <= Head(s)[2]
       THEN [tier |-> Head(s)[1], count |-> Head(s)[2],
             needed |-> Head(s)[2] - current_count]
       ELSE NextScanLeq(Tail(s), current_count)

next_requirement_leq(tiers, current_count) ==
  NextScanLeq(sorted_tiers(tiers), current_count)

next_requirement(tiers, current_count) ==
  NextScan(sorted_tiers(tiers), current_count)

(***************************************************************************)
(* The external service as the metric queries see it.  svc.merged_prs is   *)
(* the result list of the search "type:pr author:<login> is:merged", one   *)
(* repository full_name per pull request; svc.owned is the list            *)
(* get_repos(type='owner') returns.  svc.query gives, for each badge, how  *)
(* the call of its check method ends: "ok"; "caught", an exception inside   *)
(* the method's try block after `delivered` list items were iterated; or    *)
(* "raised", an exception that leaves the check method.  message is str(e) *)
(* of the exception, which get_badge_progress stores for a raised one; it  *)
(* may be empty (Exception(), TimeoutError()).                             *)
(***************************************************************************)
MaxPRs == 2
MaxOwned == 1
\* at most this many badges have a failing metric query
MaxFailing == 1

RepoNames == {"octo/a", "octo/b"}
OwnedRepos == {[private |-> FALSE, stargazers_count |-> 16],
               [private |-> TRUE, stargazers_count |-> 128]}

SeqsUpTo(S, n) == UNION {[1..m -> S] : m \in 0..n}

Min(a, b) == IF a <= b THEN a ELSE b

Messages == {"", "rate limit exceeded"}

OkOutcome == [kind |-> "ok", delivered |-> 0, message |-> ""]
RaisedOutcomes == {[kind |-> "raised", delivered |-> 0, message |-> m] : m \in Messages}

\* the ways an exception can be caught inside a check method, given the lists
CaughtOutcomes(method, prs, owned) ==
  CASE method \in {"count_merged_prs"} -> {[kind |-> "caught", delivered |-> 0, message |-> ""]}
    [] method = "count_repos_with_merged_prs" ->
         {[kind |-> "caught", delivered |-> d, message |-> ""] : d \in 0..(IF prs = <<>> THEN 0 ELSE Len(prs) - 1)}
    [] method = "count_max_stars" ->
         {[kind |-> "caught", delivered |-> d, message |-> ""] : d \in 0..(IF owned = <<>> THEN 0 ELSE Len(owned) - 1)}
    [] OTHER -> {}

Failing(q) == {b \in DOMAIN q : q[b].kind # "ok"}

FailureOutcomes(method, prs, owned) ==
  RaisedOutcomes \cup CaughtOutcomes(method, prs, owned)

\* the query outcomes in which exactly the badges of F fail
QueriesFailing(F, prs, owned) ==
  {[b \in BadgeNames |-> IF b \in F THEN g[b] ELSE OkOutcome] :
     g \in {h \in [F -> UNION {FailureOutcomes(BadgeInfo(b).check_method, prs, owned) : b \in F}] :
              \A b \in F : h[b] \in FailureOutcomes(BadgeInfo(b).check_method, prs, owned)}}

ServiceStates ==
  UNION {
    {[merged_prs |-> prs, owned |-> owned, query |-> q] :
       q \in UNION {QueriesFailing(F, prs, owned) :
                      F \in {S \in SUBSET BadgeNames : Cardinality(S) <= MaxFailing}}} :
    prs \in SeqsUpTo(RepoNames, MaxPRs), owned \in SeqsUpTo(OwnedRepos, MaxOwned)}

(***************************************************************************)
(* State.                                                                  *)
(*   self_badges   the catalogue the tracker holds (self.badges)           *)
(*   report        the rows of the table generate_progress_report built,   *)
(*                 one per entry of the progress it was given              *)
(*   t_in, t_out   the tier computation applied to one tier table and one  *)
(*                 reading                                                 *)
(*   svc           the external service's answers to the metric queries    *)
(*   args          the command that was invoked, with the arguments of     *)
(*                 create_and_close_issue_quickly when it is that one      *)
(*   execute, verify  the flags of earn_all                                *)
(*   pc            the position of the invocation                          *)
(*                 ("raised": it ended with an exception)                  *)
(*   caller        who called get_badge_progress                           *)
(*   i             index of the badge the loop of get_badge_progress is at *)
(*   progress      the dict get_badge_progress builds, as a sequence of    *)
(*                 <<badge name, entry>> in insertion order                *)
(*   calls         how many times each check method was called in the      *)
(*                 current get_badge_progress call                         *)
(*   first         what the previous get_badge_progress call returned      *)
(*   plan          the dict get_earning_plan returns                       *)
(*   k             index into plan["immediate"] in execute_immediate_badges*)
(*   earned_badges the list execute_immediate_badges builds                *)
(*   finished      the workflow runs that returned to the loop of          *)
(*                 execute_immediate_badges, in order, each with its       *)
(*                 result and the number of deletes it attempted           *)
(*   repo          the local `repo` of the running workflow: None while    *)
(*                 'repo' is not in locals()                               *)
(*   success       the value the last workflow run returned                *)
(*   repos         the temporary repositories that exist on the service,   *)
(*                 each with its issue, branch, file and pull request      *)
(*   log           the external calls of the current workflow run, in      *)
(*                 order, each with its outcome                            *)
(***************************************************************************)
VARIABLES self_badges, report, t_in, t_out, svc, args, execute, verify, pc,
          caller, i, progress, calls, first, plan, k, earned_badges, finished,
          repo, success, repos, log

tvars == <<t_in, t_out>>
pvars == <<svc, pc, caller, i, progress, calls, first>>
ovars == <<args, execute, verify, plan, k, earned_badges, finished, repo, success,
           repos, log>>
vars == <<self_badges, report, t_in, t_out, svc, args, execute, verify, pc, caller, i, progress, calls,
          first, plan, k, earned_badges, finished, repo, success, repos, log>>

\* dict lookups on the sequence of <<key, value>> pairs
Keys(d) == {d[n][1] : n \in 1..Len(d)}
Lookup(d, key) == d[CHOOSE n \in 1..Len(d) : d[n][1] = key][2]

(***************************************************************************)
(* The check methods of BadgeTracker.  o is how the call ends (svc.query). *)
(***************************************************************************)
\* a plausible slip: the count is kept on the tracker and not reset, so a
\* second call adds to the first
count_merged_prs_accumulating(o) ==
  (IF first.returned THEN Lookup(first.progress, "Heart On Your Sleeve").current ELSE 0)
  + (IF o.kind = "caught" THEN 0 ELSE Len(svc.merged_prs))

\* count = 0; try: count = prs.totalCount; except: warning; return count
count_merged_prs(o) ==
  IF o.kind = "caught" THEN 0 ELSE Len(svc.merged_prs)

\* the slice prs[:100]
PrSliceLimit == 100

\* repos = set(); for pr in prs[:100]: repos.add(pr.repository.full_name);
\* return len(repos)
count_repos_with_merged_prs(o) ==
  LET sliced == SubSeq(svc.merged_prs, 1, Min(Len(svc.merged_prs), PrSliceLimit))
      seen == IF o.kind = "caught" THEN Min(o.delivered, Len(sliced)) ELSE Len(sliced)
  IN Cardinality({sliced[j] : j \in 1..seen})

RECURSIVE MaxStarsScan(_, _)
MaxStarsScan(s, max_stars) ==
  IF s = <<>> THEN max_stars
  ELSE MaxStarsScan(Tail(s),
                    IF ~Head(s).private /\ Head(s).stargazers_count > max_stars
                    THEN Head(s).stargazers_count ELSE max_stars)

\* max_stars = 0; for repo in repos: if not repo.private and
\* repo.stargazers_count > max_stars: max_stars = repo.stargazers_count
count_max_stars(o) ==
  LET seen == IF o.kind = "caught" THEN Min(o.delivered, Len(svc.owned)) ELSE Len(svc.owned)
  IN MaxStarsScan(SubSeq(svc.owned, 1, seen), 0)

\* the five methods that print a note and return 0
check_quickdraw == 0
count_coauthored_commits == 0
count_discussion_answers == 0
check_yolo_merges == 0
check_sponsorships == 0

\* a plausible slip: check_sponsorships is missing from the class
MethodsWithoutSponsorships ==
  {"count_merged_prs", "count_repos_with_merged_prs", "count_max_stars",
   "check_quickdraw", "count_coauthored_commits", "count_discussion_answers",
   "check_yolo_merges"}

Methods == {"count_merged_prs", "count_repos_with_merged_prs", "count_max_stars",
            "check_quickdraw", "count_coauthored_commits", "count_discussion_answers",
            "check_yolo_merges", "check_sponsorships"}

\* the methods that query the service; the others have no signal to read
ObservableMethods == {"count_merged_prs", "count_repos_with_merged_prs", "count_max_stars"}

\* if hasattr(self, method_name): current_count = getattr(self, method_name)()
\* else: current_count = 0
current_count(method_name, o) ==
  IF method_name \in Methods
  THEN CASE method_name = "count_merged_prs" -> count_merged_prs(o)
         [] method_name = "count_repos_with_merged_prs" -> count_repos_with_merged_prs(o)
         [] method_name = "count_max_stars" -> count_max_stars(o)
         [] method_name = "check_quickdraw" -> check_quickdraw
         [] method_name = "count_coauthored_commits" -> count_coauthored_commits
         [] method_name = "count_discussion_answers" -> count_discussion_answers
         [] method_name = "check_yolo_merges" -> check_yolo_merges
         [] method_name = "check_sponsorships" -> check_sponsorships
  ELSE 0

(***************************************************************************)
(* The body of the loop of get_badge_progress for one badge: the entry     *)
(* progress[badge_name].  An exception that reaches the except clause      *)
(* gives the error entry, the only kind of entry with the key "error",     *)
(* whose value is str(e).                                                  *)
(***************************************************************************)
ErrorEntry(badge_info, e) ==
  [current |-> 0, achieved_tier |-> None, next_requirement |-> NoneReq,
   description |-> badge_info.description, error |-> e]

ProgressEntry(badge_info, o) ==
  IF o.kind = "raised"
  THEN ErrorEntry(badge_info, o.message)
  ELSE LET c == current_count(badge_info.check_method, o)
       IN [current |-> c,
           achieved_tier |-> achieved_tier(badge_info.tiers, c),
           next_requirement |-> next_requirement(badge_info.tiers, c),
           description |-> badge_info.description]

(***************************************************************************)
(* BadgeOrchestrator.earning_order and get_earning_plan.                   *)
(***************************************************************************)
earning_order ==
  << "Quickdraw", "YOLO", "Public Sponsor", "Heart On Your Sleeve", "Open Sourcerer",
     "Pair Extraordinaire", "Pull Shark", "Galaxy Brain", "Starstruck" >>

EmptyPlan ==
  [immediate |-> <<>>, quick |-> <<>>, short_term |-> <<>>, long_term |-> <<>>,
   completed |-> <<>>]

\* a plausible slip: the capability classes are tested first, so only the
\* long-term badges can reach completed
ClassifyCapabilityFirst(p, badge_name, badge_info) ==
  IF badge_name \in {"Quickdraw", "YOLO"}
  THEN [p EXCEPT !.immediate =
          Append(@, [name |-> badge_name, description |-> badge_info.description,
                     next_requirement |-> badge_info.next_requirement,
                     automated |-> TRUE])]
  ELSE IF badge_name \in {"Public Sponsor"}
  THEN [p EXCEPT !.quick =
          Append(@, [name |-> badge_name, description |-> badge_info.description,
                     next_requirement |-> badge_info.next_requirement,
                     automated |-> FALSE])]
  ELSE IF badge_name \in {"Heart On Your Sleeve", "Open Sourcerer", "Pair Extraordinaire"}
  THEN [p EXCEPT !.short_term =
          Append(@, [name |-> badge_name, description |-> badge_info.description,
                     next_requirement |-> badge_info.next_requirement,
                     automated |-> FALSE, tools_available |-> TRUE])]
  ELSE IF badge_info.achieved_tier # None
  THEN [p EXCEPT !.completed =
          Append(@, [name |-> badge_name, tier |-> badge_info.achieved_tier,
                     description |-> badge_info.description])]
  ELSE [p EXCEPT !.long_term =
          Append(@, [name |-> badge_name, description |-> badge_info.description,
                     next_requirement |-> badge_info.next_requirement,
                     automated |-> FALSE, tools_available |-> FALSE])]

\* the body of the loop of get_earning_plan for one badge that is in progress
Classify(p, badge_name, badge_info) ==
  IF badge_info.achieved_tier # None
  THEN [p EXCEPT !.completed =
          Append(@, [name |-> badge_name, tier |-> badge_info.achieved_tier,
                     description |-> badge_info.description])]
  ELSE IF badge_name \in {"Quickdraw", "YOLO"}
  THEN [p EXCEPT !.immediate =
          Append(@, [name |-> badge_name, description |-> badge_info.description,
                     next_requirement |-> badge_info.next_requirement,
                     automated |-> TRUE])]
  ELSE IF badge_name \in {"Public Sponsor"}
  THEN [p EXCEPT !.quick =
          Append(@, [name |-> badge_name, description |-> badge_info.description,
                     next_requirement |-> badge_info.next_requirement,
                     automated |-> FALSE])]
  ELSE IF badge_name \in {"Heart On Your Sleeve", "Open Sourcerer", "Pair Extraordinaire"}
  THEN [p EXCEPT !.short_term =
          Append(@, [name |-> badge_name, description |-> badge_info.description,
                     next_requirement |-> badge_info.next_requirement,
                     automated |-> FALSE, tools_available |-> TRUE])]
  ELSE [p EXCEPT !.long_term =
          Append(@, [name |-> badge_name, description |-> badge_info.description,
                     next_requirement |-> badge_info.next_requirement,
                     automated |-> FALSE, tools_available |-> FALSE])]

RECURSIVE PlanScan(_, _, _)
PlanScan(order, prog, p) ==
  IF order = <<>> THEN p
  ELSE PlanScan(Tail(order), prog,
                IF Head(order) \in Keys(prog)
                THEN Classify(p, Head(order), Lookup(prog, Head(order)))
                ELSE p)

\* a plausible slip: the loop runs over the catalogue (self.tracker.badges)
\* instead of self.earning_order
get_earning_plan_by_catalogue(prog) ==
  PlanScan([n \in 1..NBadges |-> badges[n].name], prog, EmptyPlan)

\* for badge_name in self.earning_order: if badge_name in progress: ...
get_earning_plan(prog) == PlanScan(earning_order, prog, EmptyPlan)

(***************************************************************************)
(* get_badge_progress, one badge per step, in the order of self.badges.    *)
(***************************************************************************)
NoCalls == [m \in Methods |-> 0]
NoResult == [returned |-> FALSE]

\* progress = {}; the print of line 150 reads self.user.login, outside
\* every try: the first lookup the tracker's user object makes goes to the
\* service and may raise, which ends get_badge_progress and the command
\* with the exception; verify_badge_progress comes after get_earning_plan,
\* so the login is already held by then.  Otherwise the loop starts.
EnterProgress(who) ==
  /\ \E login_ok \in (IF who = "verify_badge_progress" THEN {TRUE} ELSE BOOLEAN) :
       pc' = IF login_ok THEN "progress" ELSE "raised"
  /\ caller' = who
  /\ i' = 1
  /\ progress' = <<>>
  /\ calls' = NoCalls

\* a plausible slip: the try block surrounds the loop, so the first
\* exception ends it and the badges after it get no entry
CheckBadgeAborting ==
  /\ pc = "progress"
  /\ i <= NBadges
  /\ LET badge_info == self_badges[i]
         o == svc.query[badge_info.name]
     IN /\ progress' = Append(progress, <<badge_info.name, ProgressEntry(badge_info, o)>>)
        /\ calls' = IF badge_info.check_method \in Methods
                    THEN [calls EXCEPT ![badge_info.check_method] = @ + 1]
                    ELSE calls
        /\ i' = IF o.kind = "raised" THEN NBadges + 1 ELSE i + 1
  /\ UNCHANGED <<self_badges, report, t_in, t_out, svc, pc, caller, first>>
  /\ UNCHANGED ovars

\* a plausible slip: the loop runs over the orchestrator's earning_order
\* instead of the catalogue
CheckBadgeInEarningOrder ==
  /\ pc = "progress"
  /\ i <= NBadges
  /\ LET badge_info == self_badges[BadgeIndex(earning_order[i])]
         o == svc.query[badge_info.name]
     IN /\ progress' = Append(progress, <<badge_info.name, ProgressEntry(badge_info, o)>>)
        /\ calls' = IF badge_info.check_method \in Methods
                    THEN [calls EXCEPT ![badge_info.check_method] = @ + 1]
                    ELSE calls
  /\ i' = i + 1
  /\ UNCHANGED <<self_badges, report, t_in, t_out, svc, pc, caller, first>>
  /\ UNCHANGED ovars

\* a plausible slip: a query that failed is made a second time
CheckBadgeRetrying ==
  /\ pc = "progress"
  /\ i <= NBadges
  /\ LET badge_info == self_badges[i]
         o == svc.query[badge_info.name]
     IN /\ progress' = Append(progress, <<badge_info.name, ProgressEntry(badge_info, o)>>)
        /\ calls' = IF badge_info.check_method \in Methods
                    THEN [calls EXCEPT ![badge_info.check_method] =
                            IF o.kind = "ok" THEN @ + 1 ELSE @ + 2]
                    ELSE calls
  /\ i' = i + 1
  /\ UNCHANGED <<self_badges, report, t_in, t_out, svc, pc, caller, first>>
  /\ UNCHANGED ovars

\* a plausible slip: the reading is stored in the catalogue's own dict
CheckBadgeWritingCatalogue ==
  /\ pc = "progress"
  /\ i <= NBadges
  /\ LET badge_info == self_badges[i]
         o == svc.query[badge_info.name]
     IN /\ progress' = Append(progress, <<badge_info.name, ProgressEntry(badge_info, o)>>)
        /\ calls' = IF badge_info.check_method \in Methods
                    THEN [calls EXCEPT ![badge_info.check_method] = @ + 1]
                    ELSE calls
        /\ self_badges' = [self_badges EXCEPT ![i] =
                             [name |-> badge_info.name,
                              description |-> badge_info.description,
                              tiers |-> badge_info.tiers,
                              check_method |-> badge_info.check_method,
                              current |-> ProgressEntry(badge_info, o).current]]
  /\ i' = i + 1
  /\ UNCHANGED <<report, t_in, t_out, svc, pc, caller, first>>
  /\ UNCHANGED ovars

CheckBadge ==
  /\ pc = "progress"
  /\ i <= NBadges
  /\ LET badge_info == self_badges[i]
         o == svc.query[badge_info.name]
     IN /\ progress' = Append(progress, <<badge_info.name, ProgressEntry(badge_info, o)>>)
        /\ calls' = IF badge_info.check_method \in Methods
                    THEN [calls EXCEPT ![badge_info.check_method] = @ + 1]
                    ELSE calls
  /\ i' = i + 1
  /\ UNCHANGED <<self_badges, report, t_in, t_out, svc, pc, caller, first>>
  /\ UNCHANGED ovars

(***************************************************************************)
(* earn_all(execute, verify).                                              *)
(***************************************************************************)
\* the print of line 374 reads orchestrator.user.login, a lookup on the
\* service outside every try: when it raises, earn_all ends with the
\* exception; otherwise plan = orchestrator.get_earning_plan(), which
\* calls self.tracker.get_badge_progress()
EarnAllStart ==
  /\ pc = "earn_all"
  /\ \/ /\ pc' = "raised"
        /\ UNCHANGED <<caller, i, progress, calls>>
     \/ EnterProgress("get_earning_plan")
  /\ UNCHANGED <<self_badges, report, t_in, t_out, svc, first>>
  /\ UNCHANGED ovars

\* get_badge_progress returns to get_earning_plan, which classifies and
\* returns the plan
ReturnPlan ==
  /\ pc = "progress"
  /\ i > NBadges
  /\ caller = "get_earning_plan"
  /\ plan' = get_earning_plan(progress)
  /\ first' = [returned |-> TRUE, progress |-> progress]
  /\ pc' = "planned"
  /\ UNCHANGED <<self_badges, report, t_in, t_out, svc, caller, i, progress, calls>>
  /\ UNCHANGED <<args, finished, execute, verify, k, earned_badges, repo, success, repos, log>>

\* a plausible slip: the flag is not tested, so the plan command runs the
\* workflows too
EarnAllDecideIgnoringFlag ==
  /\ pc = "planned"
  /\ IF plan.immediate # <<>>
     THEN /\ pc' = "execute"
          /\ k' = 1
          /\ earned_badges' = <<>>
     ELSE /\ pc' = "guidance"
          /\ UNCHANGED <<k, earned_badges>>
  /\ UNCHANGED <<self_badges, report, t_in, t_out, svc, caller, i, progress, calls, first>>
  /\ UNCHANGED <<args, finished, execute, verify, plan, repo, success, repos, log>>

\* if plan["immediate"]: ... if execute: execute_immediate_badges(plan)
EarnAllDecide ==
  /\ pc = "planned"
  /\ IF plan.immediate # <<>> /\ execute
     THEN /\ pc' = "execute"
          /\ k' = 1
          /\ earned_badges' = <<>>
     ELSE /\ pc' = "guidance"
          /\ UNCHANGED <<k, earned_badges>>
  /\ UNCHANGED <<self_badges, report, t_in, t_out, svc, caller, i, progress, calls, first>>
  /\ UNCHANGED <<args, finished, execute, verify, plan, repo, success, repos, log>>

\* provide_guidance_for_remaining_badges(plan) only prints;
\* if verify: verify_badge_progress(), which sleeps 5 s and calls
\* get_badge_progress()
Guidance ==
  /\ pc = "guidance"
  /\ IF verify
     THEN EnterProgress("verify_badge_progress")
     ELSE /\ pc' = "done"
          /\ UNCHANGED <<caller, i, progress, calls>>
  /\ UNCHANGED <<self_badges, report, t_in, t_out, svc, first>>
  /\ UNCHANGED ovars

\* get_badge_progress returns to verify_badge_progress, and earn_all ends
ReturnVerify ==
  /\ pc = "progress"
  /\ i > NBadges
  /\ caller = "verify_badge_progress"
  /\ pc' = "done"
  /\ UNCHANGED <<self_badges, report, t_in, t_out, svc, caller, i, progress, calls, first>>
  /\ UNCHANGED ovars

(***************************************************************************)
(* The check command of badge_tracker.py: get_badge_progress, then          *)
(* generate_progress_report(progress) for the text format or json.dumps    *)
(* for the json format.  Of the report the table is modelled, one row per  *)
(* entry, with the kind of lines the detailed breakdown has for the badge. *)
(* The slices badge_name[:20] and next_req[:25] cut nothing off: no        *)
(* catalogue name is longer than 20 characters and no cell longer than 25. *)
(***************************************************************************)
MaxAchieved == [text |-> "Max achieved!"]

\* info.get(key), and the truth value Python gives the error string
get(info, key) == IF key \in DOMAIN info THEN info[key] ELSE None
Truthy(v) == v \notin {None, ""}

\* if info.get("next_requirement"): "<tier> (<needed> more)"
\* else: "Max achieved!"
next_req(info) ==
  IF info.next_requirement # NoneReq
  THEN [tier |-> info.next_requirement.tier, needed |-> info.next_requirement.needed]
  ELSE MaxAchieved

\* the status emoji: medal by tier, the check mark for any other achieved
\* tier, the cross when achieved_tier is None
status(info) ==
  IF info.achieved_tier # None
  THEN IF info.achieved_tier = "Gold" THEN "gold medal"
       ELSE IF info.achieved_tier = "Silver" THEN "silver medal"
       ELSE IF info.achieved_tier = "Bronze" THEN "bronze medal"
       ELSE "check mark"
  ELSE "cross mark"

\* table_data.append([status, badge_name[:20], current, tier, next_req[:25]])
\* and, in the detailed breakdown, the error line or the full block
TableRow(badge_name, info) ==
  [status |-> status(info),
   badge |-> badge_name,
   current |-> info.current,
   tier |-> info.achieved_tier,
   next_goal |-> next_req(info),
   detail |-> IF Truthy(get(info, "error")) THEN "error line" ELSE "breakdown"]

generate_progress_report(prog) ==
  [n \in 1..Len(prog) |-> TableRow(prog[n][1], prog[n][2])]

\* progress = tracker.get_badge_progress()
CheckStart ==
  /\ pc = "check"
  /\ EnterProgress("check")
  /\ UNCHANGED <<self_badges, report, t_in, t_out, svc, first>>
  /\ UNCHANGED ovars

\* if format == 'json': report = json.dumps(progress, ...)
\* else: report = tracker.generate_progress_report(progress); print or save
ReturnCheck ==
  /\ pc = "progress"
  /\ i > NBadges
  /\ caller = "check"
  /\ report' = IF args.format = "json" THEN progress
               ELSE generate_progress_report(progress)
  /\ pc' = "done"
  /\ UNCHANGED <<self_badges, t_in, t_out, svc, caller, i, progress, calls, first>>
  /\ UNCHANGED ovars

(***************************************************************************)
(* execute_immediate_badges(plan): the loop over plan["immediate"].        *)
(***************************************************************************)
NoRepoContent == [issue |-> "none", branch |-> FALSE, file |-> FALSE, pr |-> "none"]

Logged(call, ok) == Append(log, [call |-> call, ok |-> ok])

\* one call on the service, which returns (ok) or raises
ExternalCall(call, ok) == log' = Logged(call, ok)

\* how many times the run made this call
Attempts(call) == Cardinality({n \in 1..Len(log) : log[n].call = call})

\* a plausible slip: the workflows are started without waiting for the
\* one before, so the next one starts while the first is in its wait
ExecuteNextWithoutWaiting ==
  /\ pc \in {"execute", "qd_sleep"}
  /\ LET next == IF pc = "execute" THEN k ELSE k + 1
     IN /\ next <= Len(plan.immediate)
        /\ k' = next
        /\ pc' = IF plan.immediate[next].name = "Quickdraw" THEN "qd_create_repo"
                 ELSE "yolo_create_repo"
  /\ repo' = None
  /\ log' = <<>>
  /\ UNCHANGED <<self_badges, report, t_in, t_out, svc, caller, i, progress, calls, first>>
  /\ UNCHANGED <<args, finished, execute, verify, plan, earned_badges, success, repos>>

\* the loop picks the next badge and starts its workflow
ExecuteNext ==
  /\ pc = "execute"
  /\ k <= Len(plan.immediate)
  /\ LET badge_name == plan.immediate[k].name
     IN IF badge_name = "Quickdraw"
        THEN /\ pc' = "qd_create_repo"
             /\ k' = k
        ELSE IF badge_name = "YOLO"
        THEN /\ pc' = "yolo_create_repo"
             /\ k' = k
        ELSE \* no automation available: continue
             /\ pc' = "execute"
             /\ k' = k + 1
  /\ repo' = None
  /\ log' = <<>>
  /\ UNCHANGED <<self_badges, report, t_in, t_out, svc, caller, i, progress, calls, first>>
  /\ UNCHANGED <<args, finished, execute, verify, plan, earned_badges, success, repos>>

\* a plausible slip: the badge is appended whatever the run returned
ExecuteAfterRunAlwaysEarned ==
  /\ pc = "run_returned"
  /\ earned_badges' = Append(earned_badges, plan.immediate[k].name)
  /\ finished' = Append(finished, [badge |-> plan.immediate[k].name,
                                   success |-> success,
                                   created |-> repo # None,
                                   deletes |-> Attempts("delete_repo")])
  /\ k' = k + 1
  /\ pc' = "execute"
  /\ UNCHANGED <<self_badges, report, t_in, t_out, svc, caller, i, progress, calls, first>>
  /\ UNCHANGED <<args, execute, verify, plan, repo, success, repos, log>>

\* a plausible slip: a failed run raises out of execute_immediate_badges
\* and earn_all, and the invocation ends there
ExecuteAfterRunRaising ==
  /\ pc = "run_returned"
  /\ earned_badges' = IF success THEN Append(earned_badges, plan.immediate[k].name)
                      ELSE earned_badges
  /\ finished' = Append(finished, [badge |-> plan.immediate[k].name,
                                   success |-> success,
                                   created |-> repo # None,
                                   deletes |-> Attempts("delete_repo")])
  /\ k' = k + 1
  /\ pc' = IF success THEN "execute" ELSE "done"
  /\ UNCHANGED <<self_badges, report, t_in, t_out, svc, caller, i, progress, calls, first>>
  /\ UNCHANGED <<args, execute, verify, plan, repo, success, repos, log>>

\* the workflow returned: if success: earned_badges.append(badge_name);
\* time.sleep(2); next badge
ExecuteAfterRun ==
  /\ pc = "run_returned"
  /\ earned_badges' = IF success THEN Append(earned_badges, plan.immediate[k].name)
                      ELSE earned_badges
  /\ finished' = Append(finished, [badge |-> plan.immediate[k].name,
                                   success |-> success,
                                   created |-> repo # None,
                                   deletes |-> Attempts("delete_repo")])
  /\ k' = k + 1
  /\ pc' = "execute"
  /\ UNCHANGED <<self_badges, report, t_in, t_out, svc, caller, i, progress, calls, first>>
  /\ UNCHANGED <<args, execute, verify, plan, repo, success, repos, log>>

\* return earned_badges, back in earn_all
ExecuteReturn ==
  /\ pc = "execute"
  /\ k > Len(plan.immediate)
  /\ pc' = "guidance"
  /\ UNCHANGED <<self_badges, report, t_in, t_out, svc, caller, i, progress, calls, first>>
  /\ UNCHANGED ovars

(***************************************************************************)
(* _earn_quickdraw_badge: create repository, create issue, sleep 30 s,     *)
(* close the issue, delete the repository, return True; any exception      *)
(* goes to the except clause, which deletes the repository if `repo` is    *)
(* bound and returns False.                                                *)
(***************************************************************************)
QuickdrawRepo == "quickdraw"
YoloRepo == "yolo-badge"

WithRepo(name) == [r \in DOMAIN repos \cup {name} |->
                     IF r = name THEN NoRepoContent ELSE repos[r]]
WithoutRepo(name) == [r \in DOMAIN repos \ {name} |-> repos[r]]

\* repo = self.user.create_repo(...)
QdCreateRepo ==
  /\ pc = "qd_create_repo"
  /\ \E ok \in BOOLEAN :
       /\ ExternalCall("create_repo", ok)
       /\ IF ok
          THEN /\ repos' = WithRepo(QuickdrawRepo)
               /\ repo' = QuickdrawRepo
               /\ pc' = "qd_create_issue"
          ELSE /\ pc' = "qd_except"
               /\ UNCHANGED <<repo, repos>>
  /\ UNCHANGED <<self_badges, report, t_in, t_out, svc, caller, i, progress, calls, first>>
  /\ UNCHANGED <<args, finished, execute, verify, plan, k, earned_badges, success>>

\* a plausible slip: a failed issue creation is swallowed and the run goes
\* on to the wait
QdCreateIssueFailureIgnored ==
  /\ pc = "qd_create_issue"
  /\ \E ok \in BOOLEAN :
       /\ ExternalCall("create_issue", ok)
       /\ repos' = IF ok THEN [repos EXCEPT ![repo].issue = "open"] ELSE repos
       /\ UNCHANGED repo
       /\ pc' = "qd_sleep"
  /\ UNCHANGED <<self_badges, report, t_in, t_out, svc, caller, i, progress, calls, first>>
  /\ UNCHANGED <<args, finished, execute, verify, plan, k, earned_badges, success>>

\* issue = repo.create_issue(title=..., body=...)
QdCreateIssue ==
  /\ pc = "qd_create_issue"
  /\ \E ok \in BOOLEAN :
       /\ ExternalCall("create_issue", ok)
       /\ IF ok
          THEN /\ repos' = [repos EXCEPT ![repo].issue = "open"]
               /\ UNCHANGED repo
               /\ pc' = "qd_sleep"
          ELSE /\ pc' = "qd_except"
               /\ UNCHANGED <<repo, repos>>
  /\ UNCHANGED <<self_badges, report, t_in, t_out, svc, caller, i, progress, calls, first>>
  /\ UNCHANGED <<args, finished, execute, verify, plan, k, earned_badges, success>>

\* time.sleep(30)
QuickdrawDelay == 30

\* a plausible slip: the wait is cut short
QdSleepCutShort ==
  /\ pc = "qd_sleep"
  /\ log' = Append(log, [call |-> "sleep", ok |-> TRUE, seconds |-> QuickdrawDelay - 1])
  /\ pc' = "qd_close"
  /\ UNCHANGED <<self_badges, report, t_in, t_out, svc, caller, i, progress, calls, first>>
  /\ UNCHANGED <<args, finished, execute, verify, plan, k, earned_badges, repo, success, repos>>

QdSleep ==
  /\ pc = "qd_sleep"
  /\ log' = Append(log, [call |-> "sleep", ok |-> TRUE, seconds |-> QuickdrawDelay])
  /\ pc' = "qd_close"
  /\ UNCHANGED <<self_badges, report, t_in, t_out, svc, caller, i, progress, calls, first>>
  /\ UNCHANGED <<args, finished, execute, verify, plan, k, earned_badges, repo, success, repos>>

\* a plausible slip: a failed close returns False at once, without the
\* cleanup
QdCloseReturningOnFailure ==
  /\ pc = "qd_close"
  /\ \E ok \in BOOLEAN :
       /\ ExternalCall("close_issue", ok)
       /\ IF ok
          THEN /\ repos' = [repos EXCEPT ![repo].issue = "closed"]
               /\ UNCHANGED <<repo, success>>
               /\ pc' = "qd_delete"
          ELSE /\ success' = FALSE
               /\ pc' = "run_returned"
               /\ UNCHANGED <<repo, repos>>
  /\ UNCHANGED <<self_badges, report, t_in, t_out, svc, caller, i, progress, calls, first>>
  /\ UNCHANGED <<args, finished, execute, verify, plan, k, earned_badges>>

\* issue.edit(state="closed")
QdClose ==
  /\ pc = "qd_close"
  /\ \E ok \in BOOLEAN :
       /\ ExternalCall("close_issue", ok)
       /\ IF ok
          THEN /\ repos' = [repos EXCEPT ![repo].issue = "closed"]
               /\ UNCHANGED repo
               /\ pc' = "qd_delete"
          ELSE /\ pc' = "qd_except"
               /\ UNCHANGED <<repo, repos>>
  /\ UNCHANGED <<self_badges, report, t_in, t_out, svc, caller, i, progress, calls, first>>
  /\ UNCHANGED <<args, finished, execute, verify, plan, k, earned_badges, success>>

\* a plausible slip: the run returns True without deleting the repository
QdDeleteSkipped ==
  /\ pc = "qd_delete"
  /\ success' = TRUE
  /\ pc' = "run_returned"
  /\ UNCHANGED <<self_badges, report, t_in, t_out, svc, caller, i, progress, calls, first>>
  /\ UNCHANGED <<args, finished, execute, verify, plan, k, earned_badges, repo, repos, log>>

\* repo.delete() in the try block, then return True
QdDelete ==
  /\ pc = "qd_delete"
  /\ \E ok \in BOOLEAN :
       /\ ExternalCall("delete_repo", ok)
       /\ IF ok
          THEN /\ repos' = WithoutRepo(repo)
               /\ success' = TRUE
               /\ pc' = "run_returned"
          ELSE /\ pc' = "qd_except"
               /\ UNCHANGED <<repos, success>>
  /\ UNCHANGED <<self_badges, report, t_in, t_out, svc, caller, i, progress, calls, first>>
  /\ UNCHANGED <<args, finished, execute, verify, plan, k, earned_badges, repo>>

\* a plausible slip: the except clause returns False without the cleanup
QdExceptNoCleanup ==
  /\ pc = "qd_except"
  /\ success' = FALSE
  /\ pc' = "run_returned"
  /\ UNCHANGED <<self_badges, report, t_in, t_out, svc, caller, i, progress, calls, first>>
  /\ UNCHANGED <<args, finished, execute, verify, plan, k, earned_badges, repo, repos, log>>

\* a plausible slip: when the repository could not be created the run
\* starts over
QdExceptRetrying ==
  /\ pc = "qd_except"
  /\ IF repo # None
     THEN /\ \E ok \in BOOLEAN :
               /\ ExternalCall("delete_repo", ok)
               /\ repos' = IF ok THEN WithoutRepo(repo) ELSE repos
          /\ success' = FALSE
          /\ pc' = "run_returned"
     ELSE /\ log' = <<>>
          /\ pc' = "qd_create_repo"
          /\ UNCHANGED <<repos, success>>
  /\ UNCHANGED <<self_badges, report, t_in, t_out, svc, caller, i, progress, calls, first>>
  /\ UNCHANGED <<args, finished, execute, verify, plan, k, earned_badges, repo>>

\* except Exception: try: if 'repo' in locals(): repo.delete()
\* except: pass; return False
QdExcept ==
  /\ pc = "qd_except"
  /\ IF repo # None
     THEN \E ok \in BOOLEAN :
            /\ ExternalCall("delete_repo", ok)
            /\ repos' = IF ok THEN WithoutRepo(repo) ELSE repos
     ELSE UNCHANGED <<log, repos>>
  /\ success' = FALSE
  /\ pc' = "run_returned"
  /\ UNCHANGED <<self_badges, report, t_in, t_out, svc, caller, i, progress, calls, first>>
  /\ UNCHANGED <<args, finished, execute, verify, plan, k, earned_badges, repo>>

(***************************************************************************)
(* _earn_yolo_badge: create repository, get the main branch, create the    *)
(* branch, create the file, create the pull request, merge it, delete the  *)
(* repository, return True; the except clause is the same as above.        *)
(***************************************************************************)
\* repo = self.user.create_repo(...)
YoloCreateRepo ==
  /\ pc = "yolo_create_repo"
  /\ \E ok \in BOOLEAN :
       /\ ExternalCall("create_repo", ok)
       /\ IF ok
          THEN /\ repos' = WithRepo(YoloRepo)
               /\ repo' = YoloRepo
               /\ pc' = "yolo_get_branch"
          ELSE /\ pc' = "yolo_except"
               /\ UNCHANGED <<repo, repos>>
  /\ UNCHANGED <<self_badges, report, t_in, t_out, svc, caller, i, progress, calls, first>>
  /\ UNCHANGED <<args, finished, execute, verify, plan, k, earned_badges, success>>

\* main_branch = repo.get_branch("main")
YoloGetBranch ==
  /\ pc = "yolo_get_branch"
  /\ \E ok \in BOOLEAN :
       /\ ExternalCall("get_branch", ok)
       /\ IF ok
          THEN /\ UNCHANGED <<repo, repos>>
               /\ pc' = "yolo_create_ref"
          ELSE /\ pc' = "yolo_except"
               /\ UNCHANGED <<repo, repos>>
  /\ UNCHANGED <<self_badges, report, t_in, t_out, svc, caller, i, progress, calls, first>>
  /\ UNCHANGED <<args, finished, execute, verify, plan, k, earned_badges, success>>

\* new_branch = repo.create_git_ref(ref=..., sha=...)
YoloCreateRef ==
  /\ pc = "yolo_create_ref"
  /\ \E ok \in BOOLEAN :
       /\ ExternalCall("create_git_ref", ok)
       /\ IF ok
          THEN /\ repos' = [repos EXCEPT ![repo].branch = TRUE]
               /\ UNCHANGED repo
               /\ pc' = "yolo_create_file"
          ELSE /\ pc' = "yolo_except"
               /\ UNCHANGED <<repo, repos>>
  /\ UNCHANGED <<self_badges, report, t_in, t_out, svc, caller, i, progress, calls, first>>
  /\ UNCHANGED <<args, finished, execute, verify, plan, k, earned_badges, success>>

\* repo.create_file(path="README.md", ..., branch=new_branch_name)
YoloCreateFile ==
  /\ pc = "yolo_create_file"
  /\ \E ok \in BOOLEAN :
       /\ ExternalCall("create_file", ok)
       /\ IF ok
          THEN /\ repos' = [repos EXCEPT ![repo].file = TRUE]
               /\ UNCHANGED repo
               /\ pc' = "yolo_create_pull"
          ELSE /\ pc' = "yolo_except"
               /\ UNCHANGED <<repo, repos>>
  /\ UNCHANGED <<self_badges, report, t_in, t_out, svc, caller, i, progress, calls, first>>
  /\ UNCHANGED <<args, finished, execute, verify, plan, k, earned_badges, success>>

\* a plausible slip: a failed pull-request creation is swallowed and the
\* merge is attempted all the same
YoloCreatePullFailureIgnored ==
  /\ pc = "yolo_create_pull"
  /\ \E ok \in BOOLEAN :
       /\ ExternalCall("create_pull", ok)
       /\ repos' = IF ok THEN [repos EXCEPT ![repo].pr = "open"] ELSE repos
       /\ UNCHANGED repo
       /\ pc' = "yolo_merge"
  /\ UNCHANGED <<self_badges, report, t_in, t_out, svc, caller, i, progress, calls, first>>
  /\ UNCHANGED <<args, finished, execute, verify, plan, k, earned_badges, success>>

\* pr = repo.create_pull(title=..., head=new_branch_name, base="main")
YoloCreatePull ==
  /\ pc = "yolo_create_pull"
  /\ \E ok \in BOOLEAN :
       /\ ExternalCall("create_pull", ok)
       /\ IF ok
          THEN /\ repos' = [repos EXCEPT ![repo].pr = "open"]
               /\ UNCHANGED repo
               /\ pc' = "yolo_merge"
          ELSE /\ pc' = "yolo_except"
               /\ UNCHANGED <<repo, repos>>
  /\ UNCHANGED <<self_badges, report, t_in, t_out, svc, caller, i, progress, calls, first>>
  /\ UNCHANGED <<args, finished, execute, verify, plan, k, earned_badges, success>>

\* merge_result = pr.merge(commit_message=..., merge_method="merge")
YoloMerge ==
  /\ pc = "yolo_merge"
  /\ \E ok \in BOOLEAN :
       /\ ExternalCall("merge_pull", ok)
       /\ IF ok
          THEN /\ repos' = [repos EXCEPT ![repo].pr = "merged"]
               /\ UNCHANGED repo
               /\ pc' = "yolo_delete"
          ELSE /\ pc' = "yolo_except"
               /\ UNCHANGED <<repo, repos>>
  /\ UNCHANGED <<self_badges, report, t_in, t_out, svc, caller, i, progress, calls, first>>
  /\ UNCHANGED <<args, finished, execute, verify, plan, k, earned_badges, success>>

\* a plausible slip: a failed delete returns False at once, and the except
\* clause does not try again
YoloDeleteNoSecondAttempt ==
  /\ pc = "yolo_delete"
  /\ \E ok \in BOOLEAN :
       /\ ExternalCall("delete_repo", ok)
       /\ repos' = IF ok THEN WithoutRepo(repo) ELSE repos
       /\ success' = ok
       /\ pc' = "run_returned"
  /\ UNCHANGED <<self_badges, report, t_in, t_out, svc, caller, i, progress, calls, first>>
  /\ UNCHANGED <<args, finished, execute, verify, plan, k, earned_badges, repo>>

\* repo.delete() in the try block, then return True
YoloDelete ==
  /\ pc = "yolo_delete"
  /\ \E ok \in BOOLEAN :
       /\ ExternalCall("delete_repo", ok)
       /\ IF ok
          THEN /\ repos' = WithoutRepo(repo)
               /\ success' = TRUE
               /\ pc' = "run_returned"
          ELSE /\ pc' = "yolo_except"
               /\ UNCHANGED <<repos, success>>
  /\ UNCHANGED <<self_badges, report, t_in, t_out, svc, caller, i, progress, calls, first>>
  /\ UNCHANGED <<args, finished, execute, verify, plan, k, earned_badges, repo>>

\* a plausible slip: the except clause returns False without the cleanup
YoloExceptNoCleanup ==
  /\ pc = "yolo_except"
  /\ success' = FALSE
  /\ pc' = "run_returned"
  /\ UNCHANGED <<self_badges, report, t_in, t_out, svc, caller, i, progress, calls, first>>
  /\ UNCHANGED <<args, finished, execute, verify, plan, k, earned_badges, repo, repos, log>>

\* except Exception: try: if 'repo' in locals(): repo.delete()
\* except: pass; return False
YoloExcept ==
  /\ pc = "yolo_except"
  /\ IF repo # None
     THEN \E ok \in BOOLEAN :
            /\ ExternalCall("delete_repo", ok)
            /\ repos' = IF ok THEN WithoutRepo(repo) ELSE repos
     ELSE UNCHANGED <<log, repos>>
  /\ success' = FALSE
  /\ pc' = "run_returned"
  /\ UNCHANGED <<self_badges, report, t_in, t_out, svc, caller, i, progress, calls, first>>
  /\ UNCHANGED <<args, finished, execute, verify, plan, k, earned_badges, repo>>

(***************************************************************************)
(* QuickdrawAutomation.create_and_close_issue_quickly(repo_name,           *)
(* delay_seconds): get the repository, create an issue, sleep              *)
(* delay_seconds, comment, close the issue, return True; any exception     *)
(* returns False.  The repository is the caller's own: nothing is deleted. *)
(***************************************************************************)
\* the default of the parameter delay_seconds
DefaultDelay == 30

\* repo = self.github.get_repo(repo_name)
QuickGetRepo ==
  /\ pc = "quick_get_repo"
  /\ \E ok \in BOOLEAN :
       /\ ExternalCall("get_repo", ok)
       /\ IF ok
          THEN /\ repo' = args.repo_name
               /\ pc' = "quick_create_issue"
          ELSE /\ pc' = "quick_except"
               /\ UNCHANGED repo
  /\ UNCHANGED <<self_badges, report, t_in, t_out, svc, caller, i, progress, calls, first>>
  /\ UNCHANGED <<args, finished, execute, verify, plan, k, earned_badges, success, repos>>

\* issue = repo.create_issue(title=issue_title, body=issue_body)
QuickCreateIssue ==
  /\ pc = "quick_create_issue"
  /\ \E ok \in BOOLEAN :
       /\ ExternalCall("create_issue", ok)
       /\ IF ok
          THEN /\ repos' = [repos EXCEPT ![repo].issue = "open"]
               /\ pc' = "quick_sleep"
          ELSE /\ pc' = "quick_except"
               /\ UNCHANGED repos
  /\ UNCHANGED <<self_badges, report, t_in, t_out, svc, caller, i, progress, calls, first>>
  /\ UNCHANGED <<args, finished, execute, verify, plan, k, earned_badges, repo, success>>

\* time.sleep(delay_seconds), which raises ValueError on a negative length
QuickSleep ==
  /\ pc = "quick_sleep"
  /\ log' = Append(log, [call |-> "sleep", ok |-> args.delay_seconds >= 0,
                         seconds |-> args.delay_seconds])
  /\ pc' = IF args.delay_seconds >= 0 THEN "quick_comment" ELSE "quick_except"
  /\ UNCHANGED <<self_badges, report, t_in, t_out, svc, caller, i, progress, calls, first>>
  /\ UNCHANGED <<args, finished, execute, verify, plan, k, earned_badges, repo, success, repos>>

\* a plausible slip: the comment is optional, so its failure is swallowed
\* and the close goes ahead
QuickCommentFailureIgnored ==
  /\ pc = "quick_comment"
  /\ \E ok \in BOOLEAN :
       /\ ExternalCall("create_comment", ok)
       /\ pc' = "quick_close"
  /\ UNCHANGED <<self_badges, report, t_in, t_out, svc, caller, i, progress, calls, first>>
  /\ UNCHANGED <<args, finished, execute, verify, plan, k, earned_badges, repo, success, repos>>

\* issue.create_comment(close_comment)
QuickComment ==
  /\ pc = "quick_comment"
  /\ \E ok \in BOOLEAN :
       /\ ExternalCall("create_comment", ok)
       /\ pc' = IF ok THEN "quick_close" ELSE "quick_except"
  /\ UNCHANGED <<self_badges, report, t_in, t_out, svc, caller, i, progress, calls, first>>
  /\ UNCHANGED <<args, finished, execute, verify, plan, k, earned_badges, repo, success, repos>>

\* issue.edit(state='closed'), then return True
QuickClose ==
  /\ pc = "quick_close"
  /\ \E ok \in BOOLEAN :
       /\ ExternalCall("close_issue", ok)
       /\ IF ok
          THEN /\ repos' = [repos EXCEPT ![repo].issue = "closed"]
               /\ success' = TRUE
               /\ pc' = "done"
          ELSE /\ pc' = "quick_except"
               /\ UNCHANGED <<repos, success>>
  /\ UNCHANGED <<self_badges, report, t_in, t_out, svc, caller, i, progress, calls, first>>
  /\ UNCHANGED <<args, finished, execute, verify, plan, k, earned_badges, repo>>

\* except Exception as e: print; return False
QuickExcept ==
  /\ pc = "quick_except"
  /\ success' = FALSE
  /\ pc' = "done"
  /\ UNCHANGED <<self_badges, report, t_in, t_out, svc, caller, i, progress, calls, first>>
  /\ UNCHANGED <<args, finished, execute, verify, plan, k, earned_badges, repo, repos, log>>

(***************************************************************************)
(* Specifications.                                                         *)
(***************************************************************************)
ExampleTiers == << <<"Default", 1>>, <<"Bronze", 16>>, <<"Silver", 128>>, <<"Gold", 1024>> >>

Requirements(tiers) == {tiers[n][2] : n \in 1..Len(tiers)}

\* the readings tried for a tier table: small ones, and the ones around
\* each threshold
ReadingsFor(tiers) ==
  (0..MaxReading) \cup UNION {{r - 1, r, r + 1} : r \in Requirements(tiers)}

TierInputs ==
  UNION {{[badge |-> badges[n].name, tiers |-> badges[n].tiers, current_count |-> c] :
            c \in ReadingsFor(badges[n].tiers)} : n \in 1..NBadges}
  \cup {[badge |-> "example", tiers |-> ExampleTiers, current_count |-> c] :
          c \in ReadingsFor(ExampleTiers)}

TiersPending == [done |-> FALSE]

\* the tier computation of get_badge_progress on the input t_in
ComputeTiers ==
  /\ ~t_out.done
  /\ t_out' = [done |-> TRUE,
               achieved_tier |-> achieved_tier(t_in.tiers, t_in.current_count),
               next_requirement |-> next_requirement(t_in.tiers, t_in.current_count)]
  /\ UNCHANGED <<self_badges, report, t_in, svc, pc, caller, i, progress, calls, first>>
  /\ UNCHANGED ovars

\* the command earn_all (plan and execute are earn_all with fixed flags)
EarnAll == [command |-> "earn_all"]

IdleService == [merged_prs |-> <<>>, owned |-> <<>>,
                query |-> [b \in BadgeNames |-> OkOutcome]]

\* the state of an invocation before earn_all runs
Idle ==
  /\ self_badges = badges
  /\ report = <<>>
  /\ pc = "earn_all"
  /\ caller = None
  /\ i = 1
  /\ progress = <<>>
  /\ calls = NoCalls
  /\ first = NoResult
  /\ plan = EmptyPlan
  /\ k = 1
  /\ earned_badges = <<>>
  /\ finished = <<>>
  /\ repo = None
  /\ success = FALSE
  /\ repos = <<>>
  /\ log = <<>>

NoTierInput == [badge |-> None, tiers |-> <<>>, current_count |-> 0]

\* SpecTiers: the tier computation on every tier table and reading
TiersInit ==
  /\ t_in \in TierInputs
  /\ t_out = TiersPending
  /\ svc = IdleService
  /\ args = EarnAll
  /\ execute = FALSE
  /\ verify = FALSE
  /\ Idle

TiersNext == ComputeTiers

SpecTiers == TiersInit /\ [][TiersNext]_vars

\* the check command with its --format option
CheckCommands == {[command |-> "check", format |-> f] : f \in {"text", "json"}}

CheckInit ==
  /\ svc \in ServiceStates
  /\ args \in CheckCommands
  /\ self_badges = badges
  /\ report = <<>>
  /\ execute = FALSE
  /\ verify = FALSE
  /\ pc = "check"
  /\ caller = None
  /\ i = 1
  /\ progress = <<>>
  /\ calls = NoCalls
  /\ first = NoResult
  /\ plan = EmptyPlan
  /\ k = 1
  /\ earned_badges = <<>>
  /\ finished = <<>>
  /\ repo = None
  /\ success = FALSE
  /\ repos = <<>>
  /\ log = <<>>

PlanAndVerifyInit ==
  /\ svc \in ServiceStates
  /\ args = EarnAll
  /\ execute = FALSE
  /\ verify = TRUE
  /\ Idle

\* SpecProgress: the plan-and-verify invocation (no workflow is executed),
\* which calls get_badge_progress twice, and the check command, which
\* calls it once and builds the report, against every service state
ProgressInit ==
  /\ t_in = NoTierInput
  /\ t_out = [done |-> TRUE]
  /\ \/ PlanAndVerifyInit
     \/ CheckInit

ProgressNext ==
  \/ EarnAllStart
  \/ CheckBadge
  \/ ReturnPlan
  \/ EarnAllDecide
  \/ Guidance
  \/ ReturnVerify
  \/ CheckStart
  \/ ReturnCheck

SpecProgress == ProgressInit /\ [][ProgressNext]_vars

\* Spec: every invocation of earn_all, against the service states of a
\* fresh account, and every call of create_and_close_issue_quickly on an
\* existing repository
OrchestratorServices ==
  {s \in ServiceStates : s.owned = <<>> /\ Len(s.merged_prs) <= 1}

\* the delays tried: a negative one, none, a short one and the default
Delays == {-1, 0, 1, DefaultDelay}

QuickIssueCalls ==
  {[command |-> "create_and_close_issue_quickly", repo_name |-> r, delay_seconds |-> d] :
     r \in RepoNames, d \in Delays}

EarnAllInit ==
  /\ svc \in OrchestratorServices
  /\ args = EarnAll
  /\ execute \in BOOLEAN
  /\ verify \in BOOLEAN
  /\ Idle

QuickIssueInit ==
  /\ svc = IdleService
  /\ args \in QuickIssueCalls
  /\ self_badges = badges
  /\ report = <<>>
  /\ execute = FALSE
  /\ verify = FALSE
  /\ pc = "quick_get_repo"
  /\ caller = None
  /\ i = 1
  /\ progress = <<>>
  /\ calls = NoCalls
  /\ first = NoResult
  /\ plan = EmptyPlan
  /\ k = 1
  /\ earned_badges = <<>>
  /\ finished = <<>>
  /\ repo = None
  /\ success = FALSE
  /\ repos = [r \in {args.repo_name} |-> NoRepoContent]
  /\ log = <<>>

Init ==
  /\ t_in = NoTierInput
  /\ t_out = [done |-> TRUE]
  /\ \/ EarnAllInit
     \/ QuickIssueInit

Next ==
  \/ EarnAllStart
  \/ CheckBadge
  \/ ReturnPlan
  \/ EarnAllDecide
  \/ Guidance
  \/ ReturnVerify
  \/ ExecuteNext
  \/ ExecuteAfterRun
  \/ ExecuteReturn
  \/ QdCreateRepo
  \/ QdCreateIssue
  \/ QdSleep
  \/ QdClose
  \/ QdDelete
  \/ QdExcept
  \/ YoloCreateRepo
  \/ YoloGetBranch
  \/ YoloCreateRef
  \/ YoloCreateFile
  \/ YoloCreatePull
  \/ YoloMerge
  \/ YoloDelete
  \/ YoloExcept
  \/ QuickGetRepo
  \/ QuickCreateIssue
  \/ QuickSleep
  \/ QuickComment
  \/ QuickClose
  \/ QuickExcept

Spec == Init /\ [][Next]_vars

\* FairSpec: the invocations of Spec against the service with nothing to
\* report, with the progress the interpreter makes inside a workflow: the
\* program is one thread, and provided every call on the service returns
\* or raises and the sleep ends, the next step of the running workflow is
\* eventually taken
RunStep ==
  \/ QdCreateRepo
  \/ QdCreateIssue
  \/ QdSleep
  \/ QdClose
  \/ QdDelete
  \/ QdExcept
  \/ YoloCreateRepo
  \/ YoloGetBranch
  \/ YoloCreateRef
  \/ YoloCreateFile
  \/ YoloCreatePull
  \/ YoloMerge
  \/ YoloDelete
  \/ YoloExcept
  \/ QuickGetRepo
  \/ QuickCreateIssue
  \/ QuickSleep
  \/ QuickComment
  \/ QuickClose
  \/ QuickExcept

FairInit ==
  /\ t_in = NoTierInput
  /\ t_out = [done |-> TRUE]
  /\ \/ EarnAllInit /\ svc = IdleService
     \/ QuickIssueInit

FairSpec == FairInit /\ [][Next]_vars /\ WF_vars(RunStep)

(***************************************************************************)
(* Properties of the tier computation (SpecTiers).                         *)
(***************************************************************************)
TierIndexes == 1..Len(t_in.tiers)
Reached == {n \in TierIndexes : t_in.tiers[n][2] <= t_in.current_count}
Above == {n \in TierIndexes : t_in.tiers[n][2] > t_in.current_count}
SmallestRequirement ==
  CHOOSE r \in Requirements(t_in.tiers) : \A q \in Requirements(t_in.tiers) : r <= q
HighestTier ==
  t_in.tiers[CHOOSE n \in TierIndexes : \A m \in TierIndexes :
                      t_in.tiers[m][2] <= t_in.tiers[n][2]][1]

\* C1: for every badge and every non-negative reading, achieved_tier is the
\* label of the tier with the greatest threshold <= reading, and it is None
\* if and only if the reading is below the smallest threshold.
C1_AchievedTierIsGreatestReached ==
  t_out.done =>
    /\ IF Reached = {}
       THEN t_out.achieved_tier = None
       ELSE \E n \in Reached :
              /\ \A m \in Reached : t_in.tiers[m][2] <= t_in.tiers[n][2]
              /\ t_out.achieved_tier = t_in.tiers[n][1]
    /\ (t_out.achieved_tier = None <=> t_in.current_count < SmallestRequirement)

C1_Witness ==
  /\ t_out.done
  /\ t_in.badge = "Starstruck"
  /\ t_in.current_count = 128
  /\ t_out.achieved_tier = "Bronze"

\* C2: next_requirement is the tier with the smallest threshold strictly
\* greater than the reading, with needed = threshold - reading >= 1, and is
\* None exactly when the reading meets or exceeds the highest threshold; the
\* example tiers with reading 16 give achieved Bronze and next
\* {Silver, 128, needed 112}.
C2_NextRequirementIsSmallestAbove ==
  t_out.done =>
    /\ IF Above = {}
       THEN t_out.next_requirement = NoneReq
       ELSE \E n \in Above :
              /\ \A m \in Above : t_in.tiers[n][2] <= t_in.tiers[m][2]
              /\ t_out.next_requirement =
                   [tier |-> t_in.tiers[n][1], count |-> t_in.tiers[n][2],
                    needed |-> t_in.tiers[n][2] - t_in.current_count]
              /\ t_out.next_requirement.needed >= 1
    /\ (t_out.next_requirement = NoneReq <=>
          \A r \in Requirements(t_in.tiers) : t_in.current_count >= r)
    /\ (t_in.badge = "example" /\ t_in.current_count = 16 =>
          /\ t_out.achieved_tier = "Bronze"
          /\ t_out.next_requirement = [tier |-> "Silver", count |-> 128, needed |-> 112])

C2_Witness ==
  /\ t_out.done
  /\ t_in.badge = "example"
  /\ t_in.current_count = 16
  /\ t_out.next_requirement # NoneReq
  /\ t_out.next_requirement.tier = "Silver"

\* C3: for a known reading exactly one of (a) achieved_tier is the highest
\* tier and next_requirement is None, (b) next_requirement is present with
\* threshold > reading; the two are never both None.
C3_CaseA == t_out.achieved_tier = HighestTier /\ t_out.next_requirement = NoneReq
C3_CaseB == t_out.next_requirement # NoneReq
            /\ t_out.next_requirement.count > t_in.current_count

C3_ExactlyOneCase ==
  t_out.done =>
    /\ C3_CaseA # C3_CaseB
    /\ ~(t_out.achieved_tier = None /\ t_out.next_requirement = NoneReq)

C3_Witness ==
  /\ t_out.done
  /\ t_in.badge = "Pull Shark"
  /\ t_in.current_count = 1024
  /\ C3_CaseA

(***************************************************************************)
(* Properties of get_badge_progress and get_earning_plan (SpecProgress).   *)
(***************************************************************************)
\* the reading of a badge is unknown when its check method reads no signal
\* of the service or when its query failed
UnknownReading(badge_name) ==
  \/ BadgeInfo(badge_name).check_method \notin ObservableMethods
  \/ svc.query[badge_name].kind # "ok"

\* C4: whenever a badge's reading is unknown, its progress entry has
\* achieved_tier = None and next_requirement = None: an unknown reading is
\* never processed as a reading of zero.
C4_UnknownReadingHasNoTiers ==
  \A n \in 1..Len(progress) :
    UnknownReading(progress[n][1]) =>
      /\ progress[n][2].achieved_tier = None
      /\ progress[n][2].next_requirement = NoneReq

\* C5: two calls of get_badge_progress against the same answers of the
\* service return the same progress.
C5_SecondCallReturnsTheSame ==
  (pc = "done" /\ caller = "verify_badge_progress" /\ first.returned) =>
    progress = first.progress

C5_Witness ==
  /\ pc = "done"
  /\ caller = "verify_badge_progress"
  /\ first.returned
  /\ Len(progress) = NBadges
  /\ Lookup(progress, "Heart On Your Sleeve").achieved_tier = "Bronze"
  /\ Lookup(progress, "Starstruck").achieved_tier = "Default"

Buckets == <<"immediate", "quick", "short_term", "long_term", "completed">>
BucketNames(bucket) == [n \in 1..Len(plan[bucket]) |-> plan[bucket][n].name]
\* the places <<bucket, position>> at which a badge appears in the plan
Places(badge_name) ==
  {<<Buckets[b], n>> : b \in 1..Len(Buckets), n \in 1..NBadges} \cap
  UNION {{<<Buckets[b], n>> : n \in {m \in 1..Len(plan[Buckets[b]]) :
                                       plan[Buckets[b]][m].name = badge_name}} :
           b \in 1..Len(Buckets)}

\* C6: get_earning_plan puts each of the 9 catalogue badges in exactly one
\* bucket: a badge with an achieved tier in completed and nowhere else, a
\* badge without one in exactly one of the other four buckets.
C6_PlanIsTotalClassification ==
  first.returned =>
    \A badge_name \in BadgeNames :
      /\ Cardinality(Places(badge_name)) = 1
      /\ \A place \in Places(badge_name) :
           (place[1] = "completed") <=>
             (Lookup(first.progress, badge_name).achieved_tier # None)

C6_Witness ==
  /\ first.returned
  /\ \E n \in 1..Len(plan.completed) : plan.completed[n].name = "Starstruck"
  /\ \E n \in 1..Len(plan.completed) : plan.completed[n].name = "Heart On Your Sleeve"
  /\ Len(plan.long_term) = 2
  /\ Len(plan.immediate) = 2

IsOrderedBy(names, order) ==
  \A a, b \in 1..Len(names) :
    a < b => (CHOOSE n \in 1..Len(order) : order[n] = names[a])
               < (CHOOSE n \in 1..Len(order) : order[n] = names[b])

CatalogueOrder == [n \in 1..NBadges |-> badges[n].name]

\* C7 as stated: within every bucket the badges appear in the catalogue's
\* definition order.
C7_BucketsInCatalogueOrder ==
  first.returned =>
    \A b \in 1..Len(Buckets) : IsOrderedBy(BucketNames(Buckets[b]), CatalogueOrder)

EasiestToHardest ==
  << "Quickdraw", "YOLO", "Public Sponsor", "Heart On Your Sleeve", "Open Sourcerer",
     "Pair Extraordinaire", "Pull Shark", "Galaxy Brain", "Starstruck" >>

\* C7 amended: within every bucket the badges appear in the order of the
\* orchestrator's earning order (easiest to hardest), which is not the
\* catalogue's definition order.
C7_BucketsInEarningOrder ==
  first.returned =>
    \A b \in 1..Len(Buckets) : IsOrderedBy(BucketNames(Buckets[b]), EasiestToHardest)

C7_Witness ==
  /\ first.returned
  /\ BucketNames("long_term") = <<"Pull Shark", "Galaxy Brain", "Starstruck">>
  /\ Len(plan.completed) >= 2

(***************************************************************************)
(* Properties of the timed workflows (Spec).  The log of the run gives the *)
(* handles it created and the deletes it attempted.                        *)
(***************************************************************************)
CreateCalls == {"create_repo", "create_issue", "create_git_ref", "create_file",
                "create_pull"}
HandleOf(call) ==
  CASE call = "create_repo" -> "repo"
    [] call = "create_issue" -> "issue"
    [] call = "create_git_ref" -> "branch"
    [] call = "create_file" -> "file"
    [] call = "create_pull" -> "pr"
FinalizeCalls == {"close_issue", "merge_pull"}

\* the calls of the run that failed, cleanup apart
FailedSteps == {n \in 1..Len(log) : ~log[n].ok /\ log[n].call # "delete_repo"}
FailurePoint == CHOOSE n \in FailedSteps : \A m \in FailedSteps : n <= m
CreatedBefore(n) ==
  {HandleOf(log[m].call) : m \in {j \in 1..(n - 1) : log[j].ok /\ log[j].call \in CreateCalls}}
\* the handles a delete was attempted on after call n: repo.delete() is the
\* only delete there is
DeleteAttemptedAfter(n) ==
  {"repo" : m \in {j \in (n + 1)..Len(log) : log[j].call = "delete_repo"}}
DeleteAttempts == {n \in 1..Len(log) : log[n].call = "delete_repo"}
\* what the except clause knows to clean up: `repo`, if it is in locals()
KnownToCleanUp == IF repo # None THEN {"repo"} ELSE {}

\* C8 as stated: at every failure point the artifacts the run knows it must
\* clean up are exactly the handles created before the failure, and a
\* delete is attempted on every one of them before the run returns.
C8_CleanupCoversEveryCreatedHandle ==
  (pc = "run_returned" /\ FailedSteps # {}) =>
    /\ KnownToCleanUp = CreatedBefore(FailurePoint)
    /\ CreatedBefore(FailurePoint) \subseteq DeleteAttemptedAfter(FailurePoint)

\* C8 amended: at every failure point the only artifact the run knows it
\* must clean up is the temporary repository, known exactly when it was
\* created before the failure, and a delete is attempted on it before the
\* run returns; the issue, branch, file and pull request are neither
\* tracked nor deleted on their own.
C8_CleanupCoversTheRepository ==
  (pc = "run_returned" /\ FailedSteps # {}) =>
    /\ KnownToCleanUp = CreatedBefore(FailurePoint) \cap {"repo"}
    /\ KnownToCleanUp = DeleteAttemptedAfter(FailurePoint)

C8_Witness ==
  /\ pc = "run_returned"
  /\ FailedSteps # {}
  /\ log[FailurePoint].call = "merge_pull"
  /\ CreatedBefore(FailurePoint) = {"repo", "branch", "file", "pr"}
  /\ DeleteAttemptedAfter(FailurePoint) = {"repo"}

\* C9 as stated: whenever a workflow returns, the temporary repository it
\* created no longer exists.
C9_NoRepositoryLeftBehind ==
  (pc = "run_returned" /\ repo # None) => repo \notin DOMAIN repos

\* C9 amended: whenever a workflow returns, a delete of the temporary
\* repository it created has been attempted, and the repository still
\* exists only if every attempted delete failed.
C9_RepositoryLeftOnlyIfDeletesFailed ==
  (pc = "run_returned" /\ repo # None) =>
    /\ DeleteAttempts # {}
    /\ (repo \in DOMAIN repos <=> \A n \in DeleteAttempts : ~log[n].ok)

C9_Witness ==
  /\ pc = "run_returned"
  /\ repo = QuickdrawRepo
  /\ repo \in DOMAIN repos
  /\ Cardinality(DeleteAttempts) = 2

\* C10: the run reports success exactly when provisioning and the finalize
\* action succeeded; a failed delete of the temporary repository does not
\* change the result.
C10_ResultFixedByFinalize ==
  pc = "run_returned" =>
    (success <=> \E n \in 1..Len(log) : log[n].call \in FinalizeCalls /\ log[n].ok)

(***************************************************************************)
(* Step order of the timed workflows (Spec).                               *)
(***************************************************************************)
QdPcs == {"qd_create_repo", "qd_create_issue", "qd_sleep", "qd_close", "qd_delete",
          "qd_except"}
YoloPcs == {"yolo_create_repo", "yolo_get_branch", "yolo_create_ref",
            "yolo_create_file", "yolo_create_pull", "yolo_merge", "yolo_delete",
            "yolo_except"}
ExceptPcs == {"qd_except", "yolo_except"}
\* a run of execute_immediate_badges is under way or has just returned
InRun == pc \in QdPcs \cup YoloPcs \cup {"run_returned"}
CurrentBadge == plan.immediate[k].name

CallsMade == [n \in 1..Len(log) |-> log[n].call]
AllSucceeded == \A n \in 1..Len(log) : log[n].ok
IsPrefix(a, b) == Len(a) <= Len(b) /\ a = SubSeq(b, 1, Len(a))

FastCloseSteps == <<"create_repo", "create_issue", "sleep", "close_issue", "delete_repo">>
\* where the fast-close run stands after each number of successful calls:
\* Provisioning, Provisioning, Waiting, Finalizing, CleaningUp, Succeeded
FastClosePosition ==
  <<"qd_create_repo", "qd_create_issue", "qd_sleep", "qd_close", "qd_delete",
    "run_returned">>

\* C11: a fast-close run in which every call succeeds makes exactly the
\* calls create repository, create issue, sleep 30 s, close the issue,
\* delete the repository, in this order, none skipped and none repeated;
\* it then returns True and its repository, with the issue in it, is gone.
C11_FastCloseStepsInOrder ==
  (InRun /\ CurrentBadge = "Quickdraw" /\ AllSucceeded) =>
    /\ IsPrefix(CallsMade, FastCloseSteps)
    /\ pc = FastClosePosition[Len(log) + 1]
    /\ (Len(log) >= 3 => log[3].seconds = 30)
    /\ (pc = "run_returned" =>
          /\ success
          /\ QuickdrawRepo \notin DOMAIN repos)

C11_Witness ==
  /\ pc = "run_returned"
  /\ CurrentBadge = "Quickdraw"
  /\ AllSucceeded
  /\ CallsMade = FastCloseSteps
  /\ success

\* the provisioning steps after the creation of the repository
LaterProvisioningCalls ==
  {"create_issue", "get_branch", "create_git_ref", "create_file", "create_pull"}

\* C12: when a provisioning step after the creation of the repository
\* fails, the run goes straight to the except clause and returns False:
\* the failed call is followed by one delete of the repository and nothing
\* else, no sleep, close or merge is in the run, and the repository is
\* gone if that delete succeeded.
C12_ProvisioningFailureGoesToCleanup ==
  (InRun /\ FailedSteps # {} /\ log[FailurePoint].call \in LaterProvisioningCalls) =>
    /\ \A n \in 1..Len(log) : log[n].call \notin {"sleep"} \cup FinalizeCalls
    /\ pc \in ExceptPcs \cup {"run_returned"}
    /\ (pc \in ExceptPcs => Len(log) = FailurePoint)
    /\ (pc = "run_returned" =>
          /\ Len(log) = FailurePoint + 1
          /\ log[Len(log)].call = "delete_repo"
          /\ (log[Len(log)].ok => repo \notin DOMAIN repos)
          /\ ~success)

C12_Witness ==
  /\ pc = "run_returned"
  /\ CurrentBadge = "YOLO"
  /\ FailedSteps # {}
  /\ log[FailurePoint].call = "create_file"
  /\ Len(log) = FailurePoint + 1
  /\ ~success

(***************************************************************************)
(* Isolation of failures (SpecProgress, Spec).                             *)
(***************************************************************************)
\* get_badge_progress is about to return
ProgressComplete == pc = "progress" /\ i > NBadges

\* the entry of a badge when its metric query does not fail
EntryWithoutFailure(badge_name) == ProgressEntry(BadgeInfo(badge_name), OkOutcome)

\* the invocation ended with an exception
Raised == pc = "raised"

\* C13: whichever metric queries fail, get_badge_progress returns with
\* exactly one entry for each of the 9 catalogue badges, and the entry of
\* every badge whose query did not fail is the one it has when no query
\* fails.  No failure of a badge's metric ends the call with an exception:
\* an invocation that ended with one computed no metric at all (the lookup
\* of the login raised before the first badge).
C13_FailuresAreIsolated ==
  /\ ProgressComplete =>
       /\ Len(progress) = 9
       /\ \A b \in BadgeNames : Cardinality({n \in 1..Len(progress) : progress[n][1] = b}) = 1
       /\ \A b \in BadgeNames \ Failing(svc.query) :
            Lookup(progress, b) = EntryWithoutFailure(b)
  /\ Raised => (progress = <<>> /\ calls = NoCalls)
  /\ (pc = "progress" /\ i <= NBadges) => Len(progress) = i - 1

C13_Witness ==
  /\ ProgressComplete
  /\ svc.query["Starstruck"].kind = "raised"
  /\ "error" \in DOMAIN Lookup(progress, "Starstruck")
  /\ Lookup(progress, "Pull Shark").current = 2
  /\ Lookup(progress, "Pull Shark").achieved_tier = "Default"

\* the badges of plan["immediate"] that have a workflow, in order
AutomatedImmediate ==
  SelectSeq([n \in 1..Len(plan.immediate) |-> plan.immediate[n].name],
            LAMBDA b : b \in {"Quickdraw", "YOLO"})
FinishedBadges == [n \in 1..Len(finished) |-> finished[n].badge]
\* earn_all is past the call of execute_immediate_badges
PastExecution ==
  \/ pc \in {"guidance", "done"}
  \/ pc = "progress" /\ caller = "verify_badge_progress"

\* C14: a failed workflow run does not abort the flow around it: while
\* execute_immediate_badges runs, the runs that returned are the badges
\* before the current one, failed or not; once it is over every badge of
\* plan['immediate'] that has a workflow was run, in order; earn_all
\* returns only after the guidance, and after the verification when
\* --verify is set; and an invocation that ended with an exception had
\* started no workflow.
C14_FailedRunDoesNotAbort ==
  args = EarnAll =>
    /\ (pc = "execute" \/ InRun) => IsPrefix(FinishedBadges, AutomatedImmediate)
    /\ (execute /\ PastExecution) => FinishedBadges = AutomatedImmediate
    /\ (pc = "done" /\ verify) =>
         caller = "verify_badge_progress" /\ Len(progress) = NBadges
    /\ Raised => (finished = <<>> /\ log = <<>> /\ DOMAIN repos = {})

C14_Witness ==
  /\ args = EarnAll
  /\ pc = "done"
  /\ verify
  /\ Len(finished) = 2
  /\ ~finished[1].success
  /\ finished[2].badge = "YOLO"
  /\ finished[2].success
  /\ caller = "verify_badge_progress"

\* C15: without --execute (the plan command included) earn_all starts no
\* workflow and makes no call that creates, closes, merges or deletes
\* anything; execute_immediate_badges and the workflows run only with
\* --execute and a non-empty plan['immediate'].
C15_PlanOnlyStartsNoWorkflow ==
  /\ (args = EarnAll /\ ~execute) =>
       /\ pc # "execute"
       /\ ~InRun
       /\ log = <<>>
       /\ DOMAIN repos = {}
       /\ finished = <<>>
       /\ earned_badges = <<>>
  /\ (pc = "execute" \/ InRun) => (execute /\ plan.immediate # <<>>)

C15_Witness ==
  /\ args = EarnAll
  /\ ~execute
  /\ ~verify
  /\ pc = "done"
  /\ Len(plan.immediate) = 2
  /\ log = <<>>

(***************************************************************************)
(* The wait of the fast-close workflow (Spec).  A sleep entry of the log   *)
(* is a wait of that many seconds that ran to its end.                     *)
(***************************************************************************)
\* the delay the run is configured with: 30 s in _earn_quickdraw_badge,
\* delay_seconds in create_and_close_issue_quickly
ConfiguredDelay == IF args = EarnAll THEN 30 ELSE args.delay_seconds

\* C16: the close of the issue is attempted only after the issue was
\* created and a wait of the configured delay, started after the creation,
\* ran to its end; the wait is the first thing the run does once the issue
\* exists.
C16_CloseOnlyAfterTheDelay ==
  /\ \A n \in 1..Len(log) :
       log[n].call = "close_issue" =>
         \E m \in 1..(n - 1), j \in 1..(n - 1) :
            /\ m < j
            /\ log[m].call = "create_issue" /\ log[m].ok
            /\ log[j].call = "sleep" /\ log[j].ok
            /\ log[j].seconds >= ConfiguredDelay
  /\ \A m \in 1..Len(log) :
       (log[m].call = "create_issue" /\ log[m].ok) =>
         IF m = Len(log)
         THEN pc \in {"qd_sleep", "quick_sleep"}
         ELSE log[m + 1].call = "sleep" /\ log[m + 1].seconds = ConfiguredDelay

C16_Witness ==
  /\ args \in QuickIssueCalls
  /\ args.delay_seconds = 1
  /\ pc = "done"
  /\ success
  /\ log[Len(log)].call = "close_issue"
  /\ \E j \in 1..Len(log) : log[j].call = "sleep" /\ log[j].seconds = 1

(***************************************************************************)
(* Cleanup of the timed workflows (Spec).                                  *)
(***************************************************************************)
\* C17: in every run that created its repository at least one delete of
\* it is attempted before the run returns, whether the finalize action
\* succeeded or failed, and every delete comes after the finalize action
\* was attempted or after a call failed.
C17_CleanupOnEveryPath ==
  /\ (pc = "run_returned" /\ \E n \in 1..Len(log) : log[n].call = "create_repo" /\ log[n].ok) =>
       \E d \in 1..Len(log) : log[d].call = "delete_repo"
  /\ \A d \in 1..Len(log) :
       log[d].call = "delete_repo" =>
         \E m \in 1..(d - 1) : log[m].call \in FinalizeCalls \/ ~log[m].ok
  /\ \A n \in 1..Len(finished) : finished[n].created => finished[n].deletes >= 1

C17_Witness ==
  /\ pc = "run_returned"
  /\ CurrentBadge = "Quickdraw"
  /\ Len(log) = 5
  /\ log[4].call = "close_issue"
  /\ ~log[4].ok
  /\ log[5].call = "delete_repo"

Reverse(q) == [n \in 1..Len(q) |-> q[Len(q) + 1 - n]]
IsCreation(e) == e.call \in CreateCalls /\ e.ok
IsDelete(e) == e.call = "delete_repo"
\* the handles the run created, in the order of their creation
CreatedHandles ==
  LET made == SelectSeq(log, IsCreation)
  IN [n \in 1..Len(made) |-> HandleOf(made[n].call)]
\* the handles the run attempted to delete, in the order of the attempts
DeleteTargets ==
  LET tried == SelectSeq(log, IsDelete)
  IN [n \in 1..Len(tried) |-> "repo"]

\* C18 as stated: when the run returns, it attempted one delete on every
\* handle it created, in the reverse order of their creation.
C18_EveryHandleDeletedInReverseOrder ==
  pc = "run_returned" => DeleteTargets = Reverse(CreatedHandles)

\* C18 amended: the cleanup deletes the temporary repository and nothing
\* else: when a run that created its repository returns, the deletes it
\* attempted are the last calls of the run and all are on the repository;
\* there is one, or two when the first is the one of the try block and it
\* failed (the except clause then tries again); a failed delete is
\* swallowed; and the issue, branch, file and pull request go with the
\* repository when a delete succeeds and stay with it when none does.
C18_CleanupDeletesOnlyTheRepository ==
  (pc = "run_returned" /\ repo # None) =>
    /\ DeleteTargets \in {<<"repo">>, <<"repo", "repo">>}
    /\ \A n \in 1..Len(log) : n > Len(log) - Len(DeleteTargets) <=> IsDelete(log[n])
    /\ Len(DeleteTargets) = 2 <=> (FailedSteps = {} /\ ~success)
    /\ (\E n \in DeleteAttempts : log[n].ok) => repo \notin DOMAIN repos
    /\ (\A n \in DeleteAttempts : ~log[n].ok) =>
         /\ repo \in DOMAIN repos
         /\ (\E n \in 1..Len(log) : log[n].call = "create_pull" /\ log[n].ok)
              => repos[repo].pr # "none"
         /\ (\E n \in 1..Len(log) : log[n].call = "create_issue" /\ log[n].ok)
              => repos[repo].issue # "none"

C18_Witness ==
  /\ pc = "run_returned"
  /\ CurrentBadge = "YOLO"
  /\ CreatedHandles = <<"repo", "branch", "file", "pr">>
  /\ DeleteTargets = <<"repo", "repo">>
  /\ ~log[Len(log) - 1].ok
  /\ log[Len(log)].ok
  /\ repo \notin DOMAIN repos

(***************************************************************************)
(* One run at a time (Spec).                                               *)
(***************************************************************************)
\* C19: the runs of one invocation do not overlap: while the Quickdraw run
\* is under way no other run has started, and while the YOLO run is under
\* way, and as soon as its repository exists, the Quickdraw run is over:
\* it returned to the loop with its result, which the loop recorded, and
\* it attempted its cleanup if it had created its repository.
C19_RunsDoNotOverlap ==
  /\ pc \in QdPcs =>
       /\ CurrentBadge = "Quickdraw"
       /\ finished = <<>>
       /\ YoloRepo \notin DOMAIN repos
  /\ (pc \in YoloPcs \/ YoloRepo \in DOMAIN repos) =>
       /\ pc \notin QdPcs
       /\ Len(finished) >= 1
       /\ finished[1].badge = "Quickdraw"
       /\ finished[1].created => finished[1].deletes >= 1
       /\ finished[1].success <=> (earned_badges # <<>> /\ earned_badges[1] = "Quickdraw")
       /\ pc \in YoloPcs => (CurrentBadge = "YOLO" /\ Len(finished) = 1)

C19_Witness ==
  /\ pc = "yolo_get_branch"
  /\ YoloRepo \in DOMAIN repos
  /\ QuickdrawRepo \in DOMAIN repos
  /\ finished = <<[badge |-> "Quickdraw", success |-> FALSE, created |-> TRUE, deletes |-> 1]>>

(***************************************************************************)
(* Order of the metric queries (SpecProgress).                             *)
(***************************************************************************)
DefinitionOrder ==
  <<"Heart On Your Sleeve", "Open Sourcerer", "Starstruck", "Quickdraw",
    "Pair Extraordinaire", "Pull Shark", "Galaxy Brain", "YOLO", "Public Sponsor">>
EntryOrder(prog) == [n \in 1..Len(prog) |-> prog[n][1]]
\* the check methods of the first n badges of the definition order, one
\* call each
CallsOfFirst(n) ==
  [m \in Methods |-> Cardinality({j \in 1..n : BadgeInfo(DefinitionOrder[j]).check_method = m})]

\* C20: at every point of a get_badge_progress call the entries recorded
\* are those of the first badges of the catalogue's definition order, in
\* that order, and the check methods called are those of these badges and
\* no other: a badge is queried only when the entries of all badges before
\* it are recorded.  Every call returns its entries in the same order.
C20_QueriesInDefinitionOrder ==
  /\ pc = "progress" =>
       /\ IsPrefix(EntryOrder(progress), DefinitionOrder)
       /\ Len(progress) = i - 1
       /\ calls = CallsOfFirst(Len(progress))
  /\ ProgressComplete => EntryOrder(progress) = DefinitionOrder
  /\ first.returned => EntryOrder(first.progress) = DefinitionOrder

C20_Witness ==
  /\ ProgressComplete
  /\ caller = "verify_badge_progress"
  /\ first.returned
  /\ EntryOrder(progress) = DefinitionOrder
  /\ EntryOrder(first.progress) = EntryOrder(progress)

(***************************************************************************)
(* No retry of a failed query (SpecProgress).                              *)
(***************************************************************************)
\* the badges of the catalogue that name this check method
BadgesChecking(m) == {b \in BadgeNames : BadgeInfo(b).check_method = m}

\* C21: when get_badge_progress returns, every check method was called
\* once for each badge that names it, whether the queries succeeded or
\* failed, and the result has an entry for every badge; a call that made
\* a metric query never ends with an exception.
C21_EachQueryMadeOnce ==
  /\ ProgressComplete =>
       /\ \A m \in Methods : calls[m] = Cardinality(BadgesChecking(m))
       /\ Keys(progress) = BadgeNames
  /\ (\E m \in Methods : calls[m] > 0) => ~Raised

C21_Witness ==
  /\ ProgressComplete
  /\ svc.query["Pull Shark"].kind = "caught"
  /\ svc.merged_prs # <<>>
  /\ Lookup(progress, "Pull Shark").current = 0
  /\ calls["count_merged_prs"] = 2
  /\ calls["count_max_stars"] = 1

(***************************************************************************)
(* Step order of the unreviewed-merge workflow (Spec).                     *)
(***************************************************************************)
UnreviewedMergeSteps ==
  <<"create_repo", "get_branch", "create_git_ref", "create_file", "create_pull",
    "merge_pull", "delete_repo">>

\* C22: the YOLO run creates the repository, looks up the main branch,
\* creates the branch, the file and the pull request, in this order, and
\* merges right after the pull request was created: the merge is the call
\* that follows create_pull, every call before it succeeded, and the run
\* makes no sleep and no call other than these steps and the cleanup.
C22_UnreviewedMergeStepsInOrder ==
  (InRun /\ CurrentBadge = "YOLO") =>
    /\ \A n \in 1..Len(log) :
         /\ log[n].call \in {UnreviewedMergeSteps[j] : j \in 1..Len(UnreviewedMergeSteps)}
         /\ (\A m \in 1..(n - 1) : log[m].ok) => log[n].call = UnreviewedMergeSteps[n]
    /\ \A n \in 1..Len(log) :
         log[n].call = "merge_pull" =>
           /\ n = 6
           /\ log[n - 1].call = "create_pull"
           /\ \A m \in 1..(n - 1) : log[m].ok
           /\ repo \in DOMAIN repos => (repos[repo].branch /\ repos[repo].file)

C22_Witness ==
  /\ pc = "run_returned"
  /\ CurrentBadge = "YOLO"
  /\ AllSucceeded
  /\ CallsMade = UnreviewedMergeSteps
  /\ success

(***************************************************************************)
(* Frame of the progress and plan computation (Spec).                      *)
(***************************************************************************)
\* a step of get_badge_progress (the loop and its return) or of
\* get_earning_plan
ProgressOrPlanStep == pc = "progress" \/ pc' = "progress" \/ pc' = "planned"

\* C23: the steps of get_badge_progress and get_earning_plan leave the
\* catalogue as it was defined and change nothing on the service: no
\* repository appears or disappears, nothing in a repository changes, no
\* create, close, merge or delete call is made, and the data the queries
\* read stays as it was.
C23_ProgressAndPlanHaveNoSideEffects ==
  [][ProgressOrPlanStep =>
       /\ self_badges' = self_badges
       /\ self_badges = badges
       /\ repos' = repos
       /\ log' = log
       /\ svc' = svc
       /\ finished' = finished]_vars

C23_Witness ==
  /\ ProgressComplete
  /\ caller = "verify_badge_progress"
  /\ self_badges = badges
  /\ QuickdrawRepo \in DOMAIN repos
  /\ repos[QuickdrawRepo].issue = "closed"
  /\ log # <<>>

(***************************************************************************)
(* The catalogue (SpecProgress).                                           *)
(***************************************************************************)
DeclaredTierOrder == <<"Default", "Bronze", "Silver", "Gold">>
TierRank(label) == CHOOSE n \in 1..Len(DeclaredTierOrder) : DeclaredTierOrder[n] = label

\* C24: every badge of the catalogue has at least one tier; its tiers
\* carry labels of Default, Bronze, Silver, Gold, declared in that order,
\* with positive and strictly increasing thresholds; and its check_method
\* is a method of BadgeTracker, so no reading comes from the fallback 0.
C24_CatalogueIsWellFormed ==
  \A n \in 1..Len(self_badges) :
    LET tiers == self_badges[n].tiers
    IN /\ Len(tiers) >= 1
       /\ \A j \in 1..Len(tiers) :
            /\ tiers[j][1] \in {DeclaredTierOrder[r] : r \in 1..Len(DeclaredTierOrder)}
            /\ tiers[j][2] > 0
       /\ \A j \in 1..(Len(tiers) - 1) :
            /\ TierRank(tiers[j][1]) < TierRank(tiers[j + 1][1])
            /\ tiers[j][2] < tiers[j + 1][2]
       /\ self_badges[n].check_method \in Methods

C24_Witness ==
  /\ ProgressComplete
  /\ Len(self_badges) = 9
  /\ \A m \in Methods : calls[m] >= 1
  /\ \E n \in 1..Len(self_badges) : Len(self_badges[n].tiers) = 4
  /\ \E n \in 1..Len(self_badges) : Len(self_badges[n].tiers) = 1

(***************************************************************************)
(* Termination of the timed workflows (FairSpec).                          *)
(***************************************************************************)
QuickPcs == {"quick_get_repo", "quick_create_issue", "quick_sleep", "quick_comment",
             "quick_close", "quick_except"}
\* the longest run: the calls of the YOLO workflow, the delete of the try
\* block included, and the delete of the except clause
LongestRun == Len(UnreviewedMergeSteps) + 1

\* C25: every workflow run that started returns: a run of
\* _earn_quickdraw_badge or _earn_yolo_badge reaches the point where its
\* result is back in the loop, and a call of create_and_close_issue_quickly
\* reaches its end; and a run never makes more than one sleep or more
\* calls than its straight-line code has.
C25_EveryRunTerminates ==
  /\ (pc \in QdPcs \cup YoloPcs) ~> (pc = "run_returned")
  /\ (pc \in QuickPcs) ~> (pc = "done")
  /\ [](Attempts("sleep") <= 1 /\ Len(log) <= LongestRun)

C25_Witness ==
  /\ pc = "run_returned"
  /\ CurrentBadge = "YOLO"
  /\ Len(log) = LongestRun
  /\ ~success

(***************************************************************************)
(* The finalize step of create_and_close_issue_quickly (Spec).             *)
(***************************************************************************)
QuickIssueReturned == args \in QuickIssueCalls /\ pc = "done"
Succeeded(call) == \E n \in 1..Len(log) : log[n].call = call /\ log[n].ok

\* C26 as stated: whenever the issue was created and the wait elapsed, the
\* issue is closed when the function returns, and the function returns
\* True only if the issue was created, commented and closed.
C26_IssueEndsUpClosed ==
  QuickIssueReturned =>
    /\ (Succeeded("create_issue") /\ Succeeded("sleep")) =>
         repos[args.repo_name].issue = "closed"
    /\ success =>
         (Succeeded("create_issue") /\ Succeeded("create_comment") /\ Succeeded("close_issue"))

\* C26 amended: the close is attempted only right after the comment was
\* posted; when the function returns the issue is closed exactly when the
\* close call succeeded, so after a failed comment or a failed close the
\* created issue is left open; and the function returns True exactly when
\* the issue was created, commented and closed.
C26_IssueClosedIfCommentAndCloseSucceed ==
  /\ args \in QuickIssueCalls =>
       \A n \in 1..Len(log) :
         log[n].call = "close_issue" =>
           n > 1 /\ log[n - 1].call = "create_comment" /\ log[n - 1].ok
  /\ QuickIssueReturned =>
       /\ repos[args.repo_name].issue = "closed" <=> Succeeded("close_issue")
       /\ (Succeeded("create_issue") /\ ~Succeeded("close_issue")) =>
            repos[args.repo_name].issue = "open"
       /\ success <=>
            (Succeeded("create_issue") /\ Succeeded("create_comment")
               /\ Succeeded("close_issue"))

C26_Witness ==
  /\ QuickIssueReturned
  /\ Succeeded("create_issue")
  /\ Succeeded("sleep")
  /\ log[Len(log)].call = "create_comment"
  /\ ~log[Len(log)].ok
  /\ repos[args.repo_name].issue = "open"
  /\ ~success

(***************************************************************************)
(* The table of generate_progress_report, as printed by the check command  *)
(* (SpecProgress).                                                         *)
(***************************************************************************)
TextReportPrinted == args \in CheckCommands /\ args.format = "text" /\ pc = "done"
HighestTierOf(badge_name) ==
  LET tiers == sorted_tiers(BadgeInfo(badge_name).tiers) IN tiers[Len(tiers)][1]

\* C27: in the printed table, a row whose Next Goal cell reads
\* 'Max achieved!' belongs to a badge whose highest tier is achieved: its
\* status is not the not-achieved mark, its Tier cell is the highest tier of
\* the badge, and its entry carries no error.
C27_MaxAchievedOnlyAtHighestTier ==
  TextReportPrinted =>
    \A n \in 1..Len(report) :
      report[n].next_goal = MaxAchieved =>
        /\ report[n].status # "cross mark"
        /\ report[n].tier = HighestTierOf(report[n].badge)
        /\ report[n].detail # "error line"

(***************************************************************************)
(* Quickdraw and YOLO have no observable signal (Spec).                    *)
(***************************************************************************)
Unobservable == {"Quickdraw", "YOLO"}
NamesOf(entries) == [n \in 1..Len(entries) |-> entries[n].name]
Verified == args = EarnAll /\ pc = "done" /\ verify

\* What holds of the two badges whenever get_earning_plan returns: in every
\* service state the entries of Quickdraw and YOLO have reading 0 and no
\* achieved tier; get_earning_plan places both, in this order, in
\* immediate and neither in completed; after the workflows ran,
\* successful or not, the verification query returns the same entries for
\* them, which classify as before; and with --execute both runs take
\* place, each starting by creating its temporary repository.
QuickdrawAndYoloStayImmediate ==
  /\ \A n \in 1..Len(progress) :
       progress[n][1] \in Unobservable =>
         progress[n][2].current = 0 /\ progress[n][2].achieved_tier = None
  /\ (args = EarnAll /\ first.returned) =>
       /\ NamesOf(plan.immediate) = <<"Quickdraw", "YOLO">>
       /\ \A n \in 1..Len(plan.completed) : plan.completed[n].name \notin Unobservable
  /\ Verified =>
       /\ \A b \in Unobservable : Lookup(progress, b) = Lookup(first.progress, b)
       /\ get_earning_plan(progress).immediate = plan.immediate
  /\ (args = EarnAll /\ execute /\ PastExecution) =>
       FinishedBadges = <<"Quickdraw", "YOLO">>
  /\ (args = EarnAll /\ InRun) =>
       IF pc \in {"qd_create_repo", "yolo_create_repo"}
       THEN log = <<>>
       ELSE log # <<>> /\ log[1].call = "create_repo"

\* earn_all is over: it returned or ended with an exception
Ended == args = EarnAll /\ pc \in {"done", "raised"}

\* C28: for every state of the service Quickdraw and YOLO have reading 0
\* and no achieved tier, get_earning_plan always places both in immediate
\* and never in completed, a workflow run does not change this on
\* re-query, and every invocation with --execute runs the workflows of
\* both, each starting by creating its temporary repository.
C28_EveryExecuteProvisionsBoth ==
  /\ QuickdrawAndYoloStayImmediate
  /\ Ended => NamesOf(plan.immediate) = <<"Quickdraw", "YOLO">>
  /\ (Ended /\ execute) => FinishedBadges = <<"Quickdraw", "YOLO">>

(***************************************************************************)
(* Monotonicity of the tier computation (SpecTiers).                       *)
(***************************************************************************)
\* the threshold of the tier with this label, 0 for no tier
ThresholdOf(tiers, label) ==
  IF label = None THEN 0
  ELSE tiers[CHOOSE n \in 1..Len(tiers) : tiers[n][1] = label][2]
SmallerReadings == {v \in ReadingsFor(t_in.tiers) : v <= t_in.current_count}

\* C29: for every badge and all readings v1 <= v2, the threshold of the
\* tier achieved at v1 is at most the threshold of the tier achieved at v2
\* (no tier counting as 0); a tier that is still the next one at v2 was
\* the next one or a later one at v1, and the number needed for it has
\* gone down by v2 - v1.
C29_TiersMonotoneInReading ==
  t_out.done =>
    \A v1 \in SmallerReadings :
      LET before == next_requirement(t_in.tiers, v1)
          after == t_out.next_requirement
      IN /\ ThresholdOf(t_in.tiers, achieved_tier(t_in.tiers, v1))
              <= ThresholdOf(t_in.tiers, t_out.achieved_tier)
         /\ after # NoneReq =>
              /\ before # NoneReq
              /\ before.count <= after.count
              /\ before.tier = after.tier =>
                   /\ after.needed <= before.needed
                   /\ after.needed = before.needed - (t_in.current_count - v1)

C29_Witness ==
  /\ t_out.done
  /\ t_in.badge = "Starstruck"
  /\ t_in.current_count = 129
  /\ t_out.achieved_tier = "Bronze"
  /\ t_out.next_requirement.needed = 383
  /\ achieved_tier(t_in.tiers, 17) = "Default"
  /\ next_requirement(t_in.tiers, 127).tier = "Bronze"
  /\ next_requirement(t_in.tiers, 128).needed = 384

(***************************************************************************)
(* The list execute_immediate_badges returns (Spec).                       *)
(***************************************************************************)
SuccessfulRuns == SelectSeq(finished, LAMBDA f : f.success)
PlanPosition(badge_name) ==
  CHOOSE n \in 1..Len(plan.immediate) : plan.immediate[n].name = badge_name

\* C30: the list of earned badges holds exactly the badges of
\* plan['immediate'] whose run returned success, each once and in the
\* order of the plan; a badge whose run failed is not in it.
C30_EarnedAreTheSuccessfulRuns ==
  args = EarnAll =>
    /\ earned_badges = [n \in 1..Len(SuccessfulRuns) |-> SuccessfulRuns[n].badge]
    /\ \A n \in 1..Len(earned_badges) :
         /\ earned_badges[n] \in {plan.immediate[m].name : m \in 1..Len(plan.immediate)}
         /\ \A m \in 1..(n - 1) :
              PlanPosition(earned_badges[m]) < PlanPosition(earned_badges[n])
    /\ \A n \in 1..Len(finished) :
         ~finished[n].success =>
           \A m \in 1..Len(earned_badges) : earned_badges[m] # finished[n].badge
    /\ (execute /\ PastExecution) =>
         \A m \in 1..Len(plan.immediate) :
           (\E n \in 1..Len(earned_badges) : earned_badges[n] = plan.immediate[m].name)
             <=> (\E n \in 1..Len(finished) :
                    finished[n].badge = plan.immediate[m].name /\ finished[n].success)

C30_Witness ==
  /\ args = EarnAll
  /\ pc = "guidance"
  /\ execute
  /\ Len(finished) = 2
  /\ finished[1].badge = "Quickdraw"
  /\ ~finished[1].success
  /\ finished[2].success
  /\ earned_badges = <<"YOLO">>

====
